---- MODULE Spec2Model ----
(***************************************************************************)
(* A model of the fraudforge generation core: the scenario engine with its *)
(* exact-quota flagging, the dirty-data injector, the metadata aggregator  *)
(* and the chunk loop of TransactionGenerator.run.                         *)
(*                                                                         *)
(* Amounts are integers (cents), rates are rationals k / RateDen, and the  *)
(* draws of the seeded random source are nondeterministic choices from     *)
(* bounded sets.  A data frame is a sequence of row records; pandas'       *)
(* 0-based positions are the model's 1-based positions.                    *)
(***************************************************************************)
EXTENDS Integers, Sequences, FiniteSets, TLC

VARIABLES
    pc,        \* position of the operation in progress
    cfg,       \* GeneratorConfig of the run (records, rates, output, data_quality)
    entries,   \* scenario_entries of TransactionGenerator.run
    generated, \* rows handed to the writer so far
    chunk,     \* the data frame in flight (chunk_df / df of apply)
    issues,    \* the per-chunk issue counter
    meta,      \* MetadataCollector state
    written,   \* rows the writer has received, in order
    output,    \* the metadata payload returned by run
    inj,       \* DefaultDirtyInjector: its config and the locals of apply
    scn,       \* a scenario instance driven directly
    hist,      \* history of the calls made on scn
    takes,     \* the scenario.generate calls of the chunk iteration in progress
    dqin,      \* arguments of a DataQualityConfig construction
    dqout      \* outcome of that construction

vars == <<pc, cfg, entries, generated, chunk, issues, meta, written, output,
          inj, scn, hist, takes, dqin, dqout>>

-----------------------------------------------------------------------------
(* Bounds of the model *)

MaxRecords == 3
MaxChunk == 2
RateDen == 2
MaxBatch == 2
MaxQuota == 2
MaxCalls == 2
MaxWeight == 1
MaxIssuesPerRow == 2

\* Rows of a frame handed to _select_low_amount_indices.
MaxSelect == 4

-----------------------------------------------------------------------------
(* Generic helpers *)

Min(a, b) == IF a <= b THEN a ELSE b

Max(a, b) == IF a >= b THEN a ELSE b

Range(s) == {s[i] : i \in DOMAIN s}

RECURSIVE SumSeq(_)
SumSeq(s) == IF s = <<>> THEN 0 ELSE Head(s) + SumSeq(Tail(s))

RECURSIVE SumOver(_, _)
SumOver(f, S) ==
    IF S = {} THEN 0
    ELSE LET x == CHOOSE y \in S : TRUE IN f[x] + SumOver(f, S \ {x})

\* All orderings of the finite set S, as sequences without repetition.
Perms(S) ==
    {s \in [1..Cardinality(S) -> S] : \A i, j \in DOMAIN s : i /= j => s[i] /= s[j]}

\* The orderings of S that are ascending in key: what a sort may return when
\* the sort is not stable (ties come out in any order).
SortedBy(S, key) ==
    {s \in Perms(S) : \A i, j \in DOMAIN s : i < j => key[s[i]] <= key[s[j]]}

\* The function f on 1..n as a sequence, evaluated once.
AsSeq(f) == f \o <<>>

Reverse(s) == [i \in DOMAIN s |-> s[Len(s) + 1 - i]]

Prefix(s, k) == SubSeq(s, 1, Min(k, Len(s)))

RECURSIVE SetToSortedSeq(_)
\* The elements of a finite set of integers in ascending order (np.flatnonzero).
SetToSortedSeq(S) ==
    IF S = {} THEN <<>>
    ELSE LET m == CHOOSE x \in S : \A y \in S : x <= y
         IN <<m>> \o SetToSortedSeq(S \ {m})

\* Python's round(): n / d rounded to the nearest integer, halves to even.
RoundHalfEven(n, d) ==
    LET q == n \div d
        r == n % d
    IN IF 2 * r < d THEN q
       ELSE IF 2 * r > d THEN q + 1
       ELSE IF q % 2 = 0 THEN q ELSE q + 1

-----------------------------------------------------------------------------
(* Rows and the base frame *)

Regions == {"NORTH", "SOUTH", "EAST", "WEST"}

\* groupby("region") visits its groups in ascending key order.
RegionOrder == <<"EAST", "NORTH", "SOUTH", "WEST">>

\* regional_multiplier of CausalSimpsonScenario.generate, in tenths.
RegionalMultiplier ==
    [r \in Regions |->
        CASE r = "NORTH" -> 16 [] r = "SOUTH" -> 9 [] r = "EAST" -> 14 [] r = "WEST" -> 10]

\* The values the random source may draw for a base frame: transaction ids,
\* amounts (cents), regions and latent-risk scores.
\* The harness of a single scenario varies what that scenario's flagging reads:
\* amounts and regions for causal_simpson, risk scores for causal_collider.
ScenarioDraws(name) ==
    [ids |-> {1},
     amounts |-> IF name = "causal_simpson" THEN {100, 200} ELSE {100},
     regions |-> IF name = "causal_simpson" THEN {"NORTH", "SOUTH"} ELSE {"NORTH"},
     risks |-> IF name = "causal_collider" THEN {1, 2} ELSE {1}]

RunDraws ==
    [ids |-> {1}, amounts |-> {100}, regions |-> {"NORTH"}, risks |-> {1}]

\* One row of _generate_base_frame: no fraud labels yet, is_dirty False and
\* an empty issue list.
BaseRow(tid, amount, region) ==
    [transaction_id |-> tid, event_time |-> 0, amount |-> amount, region |-> region,
     customer_id |-> <<"CUST">>, account_id |-> <<"ACCT">>, device_id |-> <<"DEV">>,
     is_dirty |-> FALSE, dirty_issues |-> <<>>]

BaseFrames(n, draws) ==
    [1..n -> {BaseRow(t, a, r) : t \in draws.ids, a \in draws.amounts, r \in draws.regions}]

\* Sensitivity variant of Labelled: the alias column is left at False.
LabelledStaleAlias(row, name, fraud, causal) ==
    [transaction_id |-> row.transaction_id, event_time |-> row.event_time,
     amount |-> row.amount, region |-> row.region,
     customer_id |-> row.customer_id, account_id |-> row.account_id,
     device_id |-> row.device_id,
     is_dirty |-> row.is_dirty, dirty_issues |-> row.dirty_issues,
     scenario |-> name, is_fraud |-> fraud, is_causal_fraud |-> causal,
     is_casual_fraud |-> FALSE]

\* A labelled row: the base columns plus what the scenario layer adds.
Labelled(row, name, fraud, causal) ==
    [transaction_id |-> row.transaction_id, event_time |-> row.event_time,
     amount |-> row.amount, region |-> row.region,
     customer_id |-> row.customer_id, account_id |-> row.account_id,
     device_id |-> row.device_id,
     is_dirty |-> row.is_dirty, dirty_issues |-> row.dirty_issues,
     scenario |-> name, is_fraud |-> fraud, is_causal_fraud |-> causal,
     is_casual_fraud |-> causal]

\* int(df[col].sum()) for a boolean column
Count(df, col) == Cardinality({i \in DOMAIN df : df[i][col]})

-----------------------------------------------------------------------------
(* Scenario engine *)

ScenarioNames == <<"baseline", "causal_simpson", "causal_collider">>

\* BaseScenario.__init__
NewScenario(name, targets) ==
    [name |-> name, targets |-> targets,
     remaining_fraud |-> targets.fraud_rows,
     remaining_causal |-> targets.causal_rows]

\* Sensitivity variant of DrawExactFlags: the draw is not clipped to the quota.
DrawFlagsUnclipped(n, remaining) ==
    {[flags |-> S, remaining |-> remaining - n] :
        S \in {T \in SUBSET (1..n) : Cardinality(T) = n}}

\* BaseScenario._draw_exact_flags: the sets of flagged positions it may return
\* for a remaining quota, and the quota it leaves.
DrawExactFlags(n, remaining) ==
    IF remaining <= 0
    THEN {[flags |-> {}, remaining |-> remaining]}
    ELSE LET take == Min(n, remaining)
         IN {[flags |-> S, remaining |-> remaining - take] :
                S \in {T \in SUBSET (1..n) : Cardinality(T) = take}}

\* BaselineFraudScenario.generate
BaselineGenerate(s, n, draws) ==
    {[df |-> [i \in 1..n |-> Labelled(base[i], s.name, i \in f.flags, i \in c.flags)],
      scn |-> [s EXCEPT !.remaining_fraud = f.remaining, !.remaining_causal = c.remaining]] :
        base \in BaseFrames(n, draws),
        f \in DrawExactFlags(n, s.remaining_fraud),
        c \in DrawExactFlags(n, s.remaining_causal)}

RECURSIVE GroupPicks(_, _, _, _)
\* The loop over the region groups of _select_low_amount_indices: each group
\* contributes its `quota` lowest-amount rows.
GroupPicks(df, regs, quota, acc) ==
    IF regs = <<>> THEN {acc}
    ELSE LET g == {i \in DOMAIN df : df[i].region = Head(regs)}
             key == [i \in g |-> df[i].amount]
         IN IF g = {} THEN GroupPicks(df, Tail(regs), quota, acc)
            ELSE UNION {GroupPicks(df, Tail(regs), quota,
                                   acc \o Prefix(srt, Min(quota, Cardinality(g)))) :
                            srt \in SortedBy(g, key)}

RECURSIVE FillLeftovers(_, _, _)
\* The remainder loop: rows in global ascending amount order, skipping the
\* selected ones, until `count` indices are held.
FillLeftovers(acc, leftovers, count) ==
    IF leftovers = <<>> THEN acc
    ELSE IF Head(leftovers) \in Range(acc)
         THEN FillLeftovers(acc, Tail(leftovers), count)
         ELSE LET acc2 == Append(acc, Head(leftovers))
              IN IF Len(acc2) >= count THEN acc2
                 ELSE FillLeftovers(acc2, Tail(leftovers), count)

\* Sensitivity variant of SelectLowAmountIndices: the remainder is filled in
\* row order instead of ascending amount order.
SelectLowAmountIndicesRowOrderFill(df, count) ==
    LET ngroups == Cardinality({df[i].region : i \in DOMAIN df})
        quota == Max(1, count \div Max(1, ngroups))
    IN UNION {IF Len(acc) < count
              THEN {Prefix(FillLeftovers(acc, [i \in DOMAIN df |-> i], count), count)}
              ELSE {Prefix(acc, count)} :
                 acc \in GroupPicks(df, RegionOrder, quota, <<>>)}

\* CausalSimpsonScenario._select_low_amount_indices: the index arrays it may return.
SelectLowAmountIndices(df, count) ==
    LET ngroups == Cardinality({df[i].region : i \in DOMAIN df})
        quota == Max(1, count \div Max(1, ngroups))
        key == [i \in DOMAIN df |-> df[i].amount]
    IN UNION {IF Len(acc) < count
              THEN {Prefix(FillLeftovers(acc, left, count), count) :
                        left \in SortedBy(DOMAIN df, key)}
              ELSE {Prefix(acc, count)} :
                 acc \in GroupPicks(df, RegionOrder, quota, <<>>)}

\* Sensitivity variant of SimpsonGenerate: the selected rows are labelled
\* is_fraud only, is_causal_fraud stays false.
SimpsonGenerateFraudOnly(s, n, draws) ==
    LET desired == Min(s.remaining_fraud, n)
        scaled(base) ==
            [i \in 1..n |->
                [base[i] EXCEPT !.amount =
                    RoundHalfEven(base[i].amount * RegionalMultiplier[base[i].region], 10)]]
        picks(df) == IF desired > 0
                     THEN {Range(ix) : ix \in SelectLowAmountIndices(df, desired)}
                     ELSE {{}}
        after == IF desired > 0
                 THEN [s EXCEPT !.remaining_fraud = @ - desired,
                                !.remaining_causal = @ - desired]
                 ELSE s
    IN UNION {{[df |-> [i \in 1..n |-> Labelled(scaled(base)[i], s.name, i \in F, FALSE)],
                scn |-> after] : F \in picks(scaled(base))} :
                 base \in BaseFrames(n, draws)}

\* CausalSimpsonScenario.generate
SimpsonGenerate(s, n, draws) ==
    LET desired == Min(s.remaining_fraud, n)
        scaled(base) ==
            [i \in 1..n |->
                [base[i] EXCEPT !.amount =
                    RoundHalfEven(base[i].amount * RegionalMultiplier[base[i].region], 10)]]
        picks(df) == IF desired > 0
                     THEN {Range(ix) : ix \in SelectLowAmountIndices(df, desired)}
                     ELSE {{}}
        after == IF desired > 0
                 THEN [s EXCEPT !.remaining_fraud = @ - desired,
                                !.remaining_causal = @ - desired]
                 ELSE s
    IN UNION {{[df |-> [i \in 1..n |-> Labelled(scaled(base)[i], s.name, i \in F, i \in F)],
                scn |-> after] : F \in picks(scaled(base))} :
                 base \in BaseFrames(n, draws)}

\* np.quantile(latent_risk, 0.7), times 10 (linear interpolation between the
\* two order statistics around position 0.7 * (n - 1)).
Quantile70x10(risk, n) ==
    LET srt == CHOOSE s \in SortedBy(1..n, risk) : TRUE
        pos == 7 * (n - 1)
        lo == pos \div 10 + 1
        hi == Min(lo + 1, n)
    IN 10 * risk[srt[lo]] + (pos % 10) * (risk[srt[hi]] - risk[srt[lo]])

\* Sensitivity variant of ColliderGenerate: the rows of lowest latent risk are
\* labelled, the argsort order is not reversed.
ColliderGenerateLowestRisk(s, n, draws) ==
    LET desired == Min(s.remaining_fraud, n)
        review(base, risk) ==
            [i \in 1..n |->
                [base[i] EXCEPT !.amount =
                    IF 10 * risk[i] > Quantile70x10(risk, n)
                    THEN RoundHalfEven(base[i].amount * 7, 10)
                    ELSE RoundHalfEven(base[i].amount * 12, 10)]]
        picks(risk) == IF desired > 0
                       THEN {Range(Prefix(order, desired)) :
                                order \in SortedBy(1..n, risk)}
                       ELSE {{}}
        after == IF desired > 0
                 THEN [s EXCEPT !.remaining_fraud = @ - desired,
                                !.remaining_causal = @ - desired]
                 ELSE s
    IN UNION {{[df |-> [i \in 1..n |-> Labelled(review(base, risk)[i], s.name, i \in F, i \in F)],
                scn |-> after, risk |-> risk] : F \in picks(risk)} :
                 base \in BaseFrames(n, draws), risk \in [1..n -> draws.risks]}

\* CausalColliderScenario.generate
ColliderGenerate(s, n, draws) ==
    LET desired == Min(s.remaining_fraud, n)
        review(base, risk) ==
            [i \in 1..n |->
                [base[i] EXCEPT !.amount =
                    IF 10 * risk[i] > Quantile70x10(risk, n)
                    THEN RoundHalfEven(base[i].amount * 7, 10)
                    ELSE RoundHalfEven(base[i].amount * 12, 10)]]
        picks(risk) == IF desired > 0
                       THEN {Range(Prefix(Reverse(order), desired)) :
                                order \in SortedBy(1..n, risk)}
                       ELSE {{}}
        after == IF desired > 0
                 THEN [s EXCEPT !.remaining_fraud = @ - desired,
                                !.remaining_causal = @ - desired]
                 ELSE s
    IN UNION {{[df |-> [i \in 1..n |-> Labelled(review(base, risk)[i], s.name, i \in F, i \in F)],
                scn |-> after, risk |-> risk] : F \in picks(risk)} :
                 base \in BaseFrames(n, draws), risk \in [1..n -> draws.risks]}

\* scenario.generate(n, rng, cfg), dispatched on the scenario's class.
Generate(s, n, draws) ==
    CASE s.name = "baseline" -> BaselineGenerate(s, n, draws)
      [] s.name = "causal_simpson" -> SimpsonGenerate(s, n, draws)
      [] s.name = "causal_collider" -> ColliderGenerate(s, n, draws)

NoHist == [calls |-> 0, rows |-> 0, fraud |-> 0, causal |-> 0,
           last_n |-> 0, last_fraud |-> 0, before |-> 0]

-----------------------------------------------------------------------------
(* DataQualityConfig *)

\* DataQualityIssue, in declaration order.
IssueTypes ==
    <<"MISSING_VALUES", "TYPOS_NOISE", "OUTLIER_AMOUNT", "DUPLICATE_ROWS",
      "SWAP_FIELDS", "DATE_JITTER">>

\* A weight w given by the caller is the rational w / 1.
Raw(w) == [num |-> w, den |-> 1]

\* _DEFAULT_ISSUE_DISTRIBUTION: weight 1.0 for each issue type.
DefaultIssueDistribution == [k \in Range(IssueTypes) |-> Raw(1)]

DistTotal(dist) == SumOver([k \in DOMAIN dist |-> dist[k].num], DOMAIN dist)

\* Sensitivity variant of NormalizeDist: the weights are divided by the number
\* of keys.
NormalizeDistByCount(dist) ==
    LET total == DistTotal(dist)
    IN IF total <= 0
       THEN [ok |-> FALSE, error |-> "Distribution total must be positive"]
       ELSE [ok |-> TRUE,
             dist |-> [k \in DOMAIN dist |->
                          [num |-> dist[k].num, den |-> Cardinality(DOMAIN dist)]]]

\* _normalize_dist: raises when the total is not positive, else maps each key
\* to weight / total.
NormalizeDist(dist) ==
    LET total == DistTotal(dist)
    IN IF total <= 0
       THEN [ok |-> FALSE, error |-> "Distribution total must be positive"]
       ELSE [ok |-> TRUE,
             dist |-> [k \in DOMAIN dist |-> [num |-> dist[k].num, den |-> total]]]

\* Sensitivity variant of ValidateDist: the issue_dist of a disabled config is
\* not looked at.
ValidateDistUncheckedWhenDisabled(in) ==
    LET given == in.issue_dist
        empty == DOMAIN given = {}
    IN IF ~in.enabled THEN [ok |-> TRUE, cfg |-> in]
       ELSE IF ~NormalizeDist(IF empty THEN DefaultIssueDistribution ELSE given).ok
            THEN [ok |-> FALSE, error |-> "Distribution total must be positive"]
            ELSE IF empty
                 THEN [ok |-> FALSE,
                       error |-> "issue_dist must be provided when dirty data is enabled"]
                 ELSE [ok |-> TRUE,
                       cfg |-> [in EXCEPT !.issue_dist = NormalizeDist(given).dist]]

\* DataQualityConfig(...) with its after-validator _validate_dist: the
\* constructed config, or the ConfigurationError raised.
ValidateDist(in) ==
    LET given == in.issue_dist
        empty == DOMAIN given = {}
        source == IF in.enabled
                  THEN (IF empty THEN DefaultIssueDistribution ELSE given)
                  ELSE given
        checked == in.enabled \/ ~empty
    IN IF checked /\ ~NormalizeDist(source).ok
       THEN [ok |-> FALSE, error |-> NormalizeDist(source).error]
       ELSE IF in.enabled
            THEN IF empty
                 THEN [ok |-> FALSE,
                       error |-> "issue_dist must be provided when dirty data is enabled"]
                 ELSE [ok |-> TRUE,
                       cfg |-> [in EXCEPT !.issue_dist = NormalizeDist(given).dist]]
            ELSE [ok |-> TRUE, cfg |-> in]

\* Weight mappings over at most two issue types, weights 0..w.
IssueDists(w) ==
    UNION {[S -> {Raw(x) : x \in 0..w}] :
              S \in {T \in SUBSET Range(IssueTypes) : Cardinality(T) <= 2}}

\* row_dirty_rate: 0.0, 0.5 and 1.0.
DirtyRates == {[num |-> 0, den |-> 1], [num |-> 1, den |-> 2], [num |-> 1, den |-> 1]}

DQInputs(w) ==
    [enabled : BOOLEAN, row_dirty_rate : DirtyRates, issue_dist : IssueDists(w),
     max_issues_per_row : 1..MaxIssuesPerRow]

-----------------------------------------------------------------------------
(* Dirty-data injector *)

\* SAFE_STRING_COLS, restricted to the string column the rows of the model
\* carry (device_id stands for the seven columns of the list).
SAFE_STRING_COLS == {"device_id"}

\* SWAP_PAIRS, restricted likewise to the pair (customer_id, account_id).
SWAP_PAIRS == <<<<"customer_id", "account_id">>>>

\* What the random source may draw inside the issue handlers.
\* Transaction ids are 128-bit tokens; a fresh draw either repeats an id that
\* is in use (1 stands for those) or is new (FreshId).
FreshId == MaxBatch + 1

IdSpace == {1, FreshId}

TypoChars == {"A"}

OutlierFactors == {74}

DupJitter == {300}

DupFactors == {105}

DateJitter == {-600}

\* Counter[key] += 1
Bump(counter, key) ==
    IF key \in DOMAIN counter
    THEN [counter EXCEPT ![key] = @ + 1]
    ELSE [k \in DOMAIN counter \cup {key} |-> IF k = key THEN 1 ELSE counter[k]]

\* Counter[key] = value
SetKey(counter, key, value) ==
    [k \in DOMAIN counter \cup {key} |-> IF k = key THEN value ELSE counter[k]]

\* Counter.get(key, 0)
Get(counter, key) == IF key \in DOMAIN counter THEN counter[key] ELSE 0

\* DefaultDirtyInjector.__init__: the issue types of issue_dist (listed here
\* in enum order; the draws of _sample_issues come out in every order) and
\* their probabilities.
NewInjector(dq) ==
    LET keys == IF dq.enabled
                THEN SelectSeq(IssueTypes, LAMBDA k : k \in DOMAIN dq.issue_dist)
                ELSE <<>>
    IN [cfg |-> dq, issues |-> keys,
        issue_probs |-> [i \in DOMAIN keys |-> dq.issue_dist[keys[i]]]]

\* Generator.choice(len, size=count, replace=False, p=probs): raises when
\* fewer than `count` entries have positive probability, else returns `count`
\* distinct positions of positive probability in any order.
ChoiceNoReplace(probs, count) ==
    LET positive == {i \in DOMAIN probs : probs[i].num > 0}
    IN IF count > Cardinality(positive)
       THEN {[raised |-> TRUE, picked |-> <<>>]}
       ELSE {[raised |-> FALSE, picked |-> s] :
                s \in UNION {Perms(T) : T \in {U \in SUBSET positive : Cardinality(U) = count}}}

\* DefaultDirtyInjector._sample_issues
SampleIssues(j) ==
    IF j.issues = <<>>
    THEN {[raised |-> FALSE, issues |-> <<>>]}
    ELSE UNION {IF count <= 0 \/ Len(j.issue_probs) = 0
                THEN {[raised |-> FALSE, issues |-> <<>>]}
                ELSE {[raised |-> c.raised,
                       issues |-> [i \in DOMAIN c.picked |-> j.issues[c.picked[i]]]] :
                          c \in ChoiceNoReplace(j.issue_probs, count)} :
                   count \in 1..j.cfg.max_issues_per_row}

\* str(value) with one uppercase letter inserted at a position 0..len.
InsertAt(value, pos, ch) ==
    SubSeq(value, 1, pos) \o <<ch>> \o SubSeq(value, pos + 1, Len(value))

NA == <<"<NA>">>

\* The handlers below give every outcome of one issue applied to row idx of
\* the working frame: the frame left, and the row copied from (0 when none).

\* _missing_values
MissingValues(df, idx) ==
    {[df |-> [df EXCEPT ![idx] = [@ EXCEPT ![col] = NA]], source |-> 0] :
        col \in SAFE_STRING_COLS}

\* _typos_noise
TyposNoise(df, idx) ==
    UNION {IF df[idx][col] = <<>>
           THEN {[df |-> df, source |-> 0]}
           ELSE {[df |-> [df EXCEPT ![idx] =
                            [@ EXCEPT ![col] = InsertAt(df[idx][col], pos, ch)]],
                  source |-> 0] :
                    pos \in 0..Len(df[idx][col]), ch \in TypoChars} :
              col \in SAFE_STRING_COLS}

\* _outlier_amount: the factor is given in tenths, the floor 0.01 is one cent.
OutlierAmount(df, idx) ==
    {[df |-> [df EXCEPT ![idx] =
                [@ EXCEPT !.amount = Max(1, RoundHalfEven(df[idx].amount * f, 10))]],
      source |-> 0] : f \in OutlierFactors}

\* Sensitivity variant of DuplicateSource: the drawn row is used as it is,
\* without the fallback for a self-draw.
DuplicateSourceAsDrawn(drawn, idx, n) == drawn

\* The row _duplicate_rows copies from, for a drawn position (lines 118-120).
DuplicateSource(drawn, idx, n) ==
    IF drawn = idx THEN (drawn % n) + 1 ELSE drawn

\* A fresh transaction id of _random_transaction_id: any token of the id space.
RandomTransactionId == IdSpace

\* Sensitivity variant of DuplicateRows: the copy is appended to the frame
\* instead of overwriting row idx.
DuplicateRowsAppended(df, idx) ==
    {[df |-> Append(df, [df[DuplicateSource(drawn, idx, Len(df))] EXCEPT
                            !.transaction_id = tid]),
      source |-> DuplicateSource(drawn, idx, Len(df))] :
        drawn \in 1..Len(df), tid \in RandomTransactionId}

\* _duplicate_rows: every column but transaction_id is taken from the source
\* row, the dirty_issues cell included (the same list object); then a fresh
\* transaction id, a timestamp jitter and an amount perturbation.
DuplicateRows(df, idx) ==
    {[df |-> [df EXCEPT ![idx] =
                [df[DuplicateSource(drawn, idx, Len(df))] EXCEPT
                    !.transaction_id = tid,
                    !.event_time = @ + jit,
                    !.amount = RoundHalfEven(@ * u, 100)]],
      source |-> DuplicateSource(drawn, idx, Len(df))] :
        drawn \in 1..Len(df), tid \in RandomTransactionId, jit \in DupJitter,
        u \in DupFactors}

\* _swap_fields
SwapFields(df, idx) ==
    {[df |-> [df EXCEPT ![idx] =
                [@ EXCEPT ![SWAP_PAIRS[1][1]] = df[idx][SWAP_PAIRS[1][2]],
                          ![SWAP_PAIRS[1][2]] = df[idx][SWAP_PAIRS[1][1]]]],
      source |-> 0]}

\* _date_jitter
DateJitterRow(df, idx) ==
    {[df |-> [df EXCEPT ![idx] = [@ EXCEPT !.event_time = @ + jit]], source |-> 0] :
        jit \in DateJitter}

\* During apply the dirty_issues cell of a row holds a reference to a list
\* object; `lists` maps references to the lists' contents.  The locals of
\* apply are the working frame, the lists, the counter and (for the record)
\* the log of the issues applied.

\* _apply_issue: the handler of the issue type, then the issue's name is
\* appended to the list the row's cell refers to.
ApplyIssue(st, idx, issue) ==
    LET handled ==
            CASE issue = "MISSING_VALUES" -> MissingValues(st.mutated, idx)
              [] issue = "TYPOS_NOISE" -> TyposNoise(st.mutated, idx)
              [] issue = "OUTLIER_AMOUNT" -> OutlierAmount(st.mutated, idx)
              [] issue = "DUPLICATE_ROWS" -> DuplicateRows(st.mutated, idx)
              [] issue = "SWAP_FIELDS" -> SwapFields(st.mutated, idx)
              [] issue = "DATE_JITTER" -> DateJitterRow(st.mutated, idx)
    IN {[mutated |-> h.df,
         lists |-> [st.lists EXCEPT ![h.df[idx].dirty_issues] = Append(@, issue)],
         counter |-> st.counter,
         log |-> Append(st.log, [idx |-> idx, issue |-> issue, source |-> h.source])] :
            h \in handled}

RECURSIVE ApplyIssues(_, _, _)
\* apply, lines 52-54: the issues sampled for a dirty row, applied in order and
\* counted.
ApplyIssues(st, idx, todo) ==
    IF todo = <<>> THEN {st}
    ELSE UNION {ApplyIssues([st2 EXCEPT !.counter = Bump(@, Head(todo))], idx, Tail(todo)) :
                   st2 \in ApplyIssue(st, idx, Head(todo))}

RECURSIVE ApplyRows(_, _, _)
\* apply, lines 50-54: the loop over the dirty rows; the ValueError of
\* Generator.choice in _sample_issues leaves apply.
ApplyRows(j, st, indices) ==
    IF indices = <<>> THEN {[raised |-> FALSE, st |-> st]}
    ELSE UNION {IF smp.raised
                THEN {[raised |-> TRUE, st |-> st]}
                ELSE UNION {ApplyRows(j, st2, Tail(indices)) :
                               st2 \in ApplyIssues(st, Head(indices), smp.issues)} :
                   smp \in SampleIssues(j)}

\* The sets of rows the Bernoulli draws `rng.random(n) < row_dirty_rate` may select.
DirtyMasks(n, rate) ==
    IF rate.num = 0 THEN {{}}
    ELSE IF rate.num = rate.den THEN {1..n}
    ELSE SUBSET (1..n)

\* The data frame apply returns: cells give the contents of their lists.
Materialize(df, lists) ==
    AsSeq([i \in DOMAIN df |-> [df[i] EXCEPT !.dirty_issues = lists[df[i].dirty_issues]]])

\* Sensitivity variant of ApplyFinish: every row of the batch is marked dirty,
\* not only the drawn ones.
ApplyFinishMarksAll(st, indices) ==
    LET marked == [i \in DOMAIN st.mutated |-> [st.mutated[i] EXCEPT !.is_dirty = TRUE]]
        synced == [i \in DOMAIN marked |->
                     [marked[i] EXCEPT !.is_casual_fraud = marked[i].is_causal_fraud]]
    IN [raised |-> FALSE,
        df |-> Materialize(synced, st.lists),
        counter |-> SetKey(st.counter, "__rows__", Len(indices)),
        indices |-> indices, log |-> st.log]

\* apply, lines 55-59: the dirty rows are marked, __rows__ is set and the alias
\* column is rewritten.
ApplyFinish(st, indices) ==
    LET marked == [i \in DOMAIN st.mutated |->
                     [st.mutated[i] EXCEPT
                         !.is_dirty = IF i \in Range(indices) THEN TRUE ELSE @]]
        synced == [i \in DOMAIN marked |->
                     [marked[i] EXCEPT !.is_casual_fraud = marked[i].is_causal_fraud]]
    IN [raised |-> FALSE,
        df |-> Materialize(synced, st.lists),
        counter |-> SetKey(st.counter, "__rows__", Len(indices)),
        indices |-> indices, log |-> st.log]

\* Sensitivity variant of ApplyOutcomes: the early return for a disabled
\* config or an empty frame is left out.
ApplyOutcomesUnguarded(j, df) ==
    UNION {
      {IF r.raised
       THEN [raised |-> TRUE, df |-> df, counter |-> <<>>,
             indices |-> SetToSortedSeq(mask), log |-> r.st.log]
       ELSE ApplyFinish(r.st, SetToSortedSeq(mask)) :
          r \in ApplyRows(j,
                          [mutated |-> AsSeq([i \in DOMAIN df |->
                                                 [df[i] EXCEPT !.dirty_issues = i]]),
                           lists |-> AsSeq([i \in DOMAIN df |-> df[i].dirty_issues]),
                           counter |-> <<>>, log |-> <<>>],
                          SetToSortedSeq(mask))} :
      mask \in DirtyMasks(Len(df), j.cfg.row_dirty_rate)}

\* DefaultDirtyInjector.apply(df, rng): every outcome, a returned pair (frame,
\* counter) or the exception raised.
ApplyOutcomes(j, df) ==
    IF ~j.cfg.enabled \/ df = <<>>
    THEN {[raised |-> FALSE, df |-> df, counter |-> <<>>, indices |-> <<>>, log |-> <<>>]}
    ELSE UNION {
           {IF r.raised
            THEN [raised |-> TRUE, df |-> df, counter |-> <<>>,
                  indices |-> SetToSortedSeq(mask), log |-> r.st.log]
            ELSE ApplyFinish(r.st, SetToSortedSeq(mask)) :
               r \in ApplyRows(j,
                               [mutated |-> AsSeq([i \in DOMAIN df |->
                                                      [df[i] EXCEPT !.dirty_issues = i]]),
                                lists |-> AsSeq([i \in DOMAIN df |-> df[i].dirty_issues]),
                                counter |-> <<>>, log |-> <<>>],
                               SetToSortedSeq(mask))} :
           mask \in DirtyMasks(Len(df), j.cfg.row_dirty_rate)}

\* The call injector.apply(chunk, rng): the frame and the counter it returns
\* replace the caller's, an exception ends the caller.
Apply ==
    /\ pc = "apply"
    /\ \E r \in ApplyOutcomes(inj, chunk) :
          /\ hist' = [input |-> chunk, indices |-> r.indices, log |-> r.log]
          /\ IF r.raised
             THEN /\ pc' = "raised"
                  /\ UNCHANGED <<chunk, issues>>
             ELSE /\ pc' = "applied"
                  /\ chunk' = r.df
                  /\ issues' = r.counter
    /\ UNCHANGED <<cfg, entries, generated, meta, written, output, inj, scn, takes,
                   dqin, dqout>>

\* The batches handed to an injector driven directly: rows as the scenarios
\* label them, with pairwise distinct transaction ids.
InjectorRow(i) ==
    [Labelled(BaseRow(i, 100 * i, "NORTH"),
              IF i % 2 = 1 THEN "causal_collider" ELSE "baseline", i % 2 = 1, i % 2 = 1)
        EXCEPT !.event_time = 1000 * i]

InjectorFrames == {[i \in 1..n |-> InjectorRow(i)] : n \in 0..MaxBatch}

InjectorInit ==
    /\ pc = "apply"
    /\ \E in \in DQInputs(1) :
        /\ ValidateDist(in).ok
        /\ inj = NewInjector(ValidateDist(in).cfg)
    /\ chunk \in InjectorFrames
    /\ issues = <<>>
    /\ cfg = [records |-> 0]
    /\ entries = <<>>
    /\ generated = 0
    /\ meta = [total_records |-> 0]
    /\ written = <<>>
    /\ output = [none |-> TRUE]
    /\ scn = [name |-> "none"]
    /\ hist = NoHist
    /\ takes = <<>>
    /\ dqin = [none |-> TRUE]
    /\ dqout = [none |-> TRUE]

InjectorNext == Apply

InjectorSpec == InjectorInit /\ [][InjectorNext]_vars

-----------------------------------------------------------------------------
(* A scenario instance driven directly: any targets, any sequence of calls *)

\* total_rows is read by no generate method; one value stands for all.
Targets ==
    [total_rows : {MaxQuota}, fraud_rows : 0..MaxQuota, causal_rows : 0..MaxQuota]

ScenarioInit ==
    /\ pc = "scenario"
    /\ \E name \in Range(ScenarioNames), t \in Targets : scn = NewScenario(name, t)
    /\ hist = NoHist
    /\ takes = <<>>
    /\ cfg = [records |-> 0]
    /\ entries = <<>>
    /\ generated = 0
    /\ chunk = <<>>
    /\ issues = <<>>
    /\ meta = [total_records |-> 0]
    /\ written = <<>>
    /\ output = [none |-> TRUE]
    /\ inj = [none |-> TRUE]
    /\ dqin = [none |-> TRUE]
    /\ dqout = [none |-> TRUE]

\* One call scn.generate(n, rng, cfg) with 1 <= n <= MaxBatch.
CallGenerate ==
    /\ pc = "scenario"
    /\ hist.calls < MaxCalls
    /\ \E n \in 1..MaxBatch : \E out \in Generate(scn, n, ScenarioDraws(scn.name)) :
        /\ scn' = out.scn
        /\ chunk' = out.df
        /\ hist' = [calls |-> hist.calls + 1,
                    rows |-> hist.rows + Len(out.df),
                    fraud |-> hist.fraud + Count(out.df, "is_fraud"),
                    causal |-> hist.causal + Count(out.df, "is_causal_fraud"),
                    last_n |-> n,
                    last_fraud |-> Count(out.df, "is_fraud"),
                    before |-> scn.remaining_fraud,
                    risk |-> IF "risk" \in DOMAIN out THEN out.risk ELSE <<>>]
    /\ UNCHANGED <<pc, cfg, entries, generated, issues, meta, written, output,
                   inj, takes, dqin, dqout>>

ScenarioNext == CallGenerate

ScenarioSpec == ScenarioInit /\ [][ScenarioNext]_vars

-----------------------------------------------------------------------------
(* Metadata aggregator *)

\* MetadataCollector.__init__
NewMetadata ==
    [total_records |-> 0, fraud_total |-> 0, non_fraud |-> 0,
     causal_counts |-> <<>>, causal_descriptions |-> {},
     dirty_rows |-> 0, dirty_counts |-> <<>>, synth_info |-> "unset"]

RECURSIVE AddAll(_, _, _)
\* counter[k] += extra[k] for every key k of `keys`
AddAll(counter, extra, keys) ==
    IF keys = {} THEN counter
    ELSE LET k == CHOOSE x \in keys : TRUE
         IN AddAll(SetKey(counter, k, Get(counter, k) + extra[k]), extra, keys \ {k})

\* value_counts of the scenario column over the rows flagged is_causal_fraud
CausalByScenario(df) ==
    LET names == {df[i].scenario : i \in {j \in DOMAIN df : df[j].is_causal_fraud}}
    IN [nm \in names |->
          Cardinality({i \in DOMAIN df : df[i].is_causal_fraud /\ df[i].scenario = nm})]

\* value_counts of the exploded dirty_issues lists of the rows flagged is_dirty
IssuesByRows(df) ==
    LET dirty == {i \in DOMAIN df : df[i].is_dirty}
        tags == UNION {Range(df[i].dirty_issues) : i \in dirty}
    IN [t \in tags |->
          SumOver([i \in dirty |->
                      Cardinality({p \in DOMAIN df[i].dirty_issues : df[i].dirty_issues[p] = t})],
                  dirty)]

\* Sensitivity variant of MetadataUpdate: the dirty columns of the frame are
\* scanned as well when a counter is supplied.
MetadataUpdateRescanning(m, df, arg) ==
    LET byScn == CausalByScenario(df)
        base == [m EXCEPT
                   !.total_records = @ + Len(df),
                   !.fraud_total = @ + Count(df, "is_fraud"),
                   !.non_fraud = @ + (Len(df) - Count(df, "is_fraud")),
                   !.causal_counts = AddAll(@, byScn, DOMAIN byScn)]
        scanned == [base EXCEPT
                      !.dirty_rows = @ + Count(df, "is_dirty"),
                      !.dirty_counts = AddAll(@, IssuesByRows(df), DOMAIN IssuesByRows(df))]
    IN IF arg.given
       THEN [scanned EXCEPT
               !.dirty_rows = @ + Get(arg.counter, "__rows__"),
               !.dirty_counts = AddAll(@, arg.counter, DOMAIN arg.counter \ {"__rows__"})]
       ELSE scanned

\* MetadataCollector.update(df, dirty_issues=arg): arg.given is FALSE for None.
MetadataUpdate(m, df, arg) ==
    LET byScn == CausalByScenario(df)
        base == [m EXCEPT
                   !.total_records = @ + Len(df),
                   !.fraud_total = @ + Count(df, "is_fraud"),
                   !.non_fraud = @ + (Len(df) - Count(df, "is_fraud")),
                   !.causal_counts = AddAll(@, byScn, DOMAIN byScn)]
    IN IF arg.given
       THEN [base EXCEPT
               !.dirty_rows = @ + Get(arg.counter, "__rows__"),
               !.dirty_counts = AddAll(@, arg.counter, DOMAIN arg.counter \ {"__rows__"})]
       ELSE [base EXCEPT
               !.dirty_rows = @ + Count(df, "is_dirty"),
               !.dirty_counts = AddAll(@, IssuesByRows(df), DOMAIN IssuesByRows(df))]

\* MetadataCollector.finalize: the payload (lineage left out).
MetadataFinalize(m) ==
    LET total == IF m.total_records = 0 THEN 1 ELSE m.total_records
        causal_total == SumOver(m.causal_counts, DOMAIN m.causal_counts)
    IN [counts |-> [total_records |-> total, non_fraud |-> m.non_fraud,
                    fraud_total |-> m.fraud_total],
        causal |-> [causal_fraud_count |-> causal_total,
                    causal_fraud_share |-> [num |-> causal_total, den |-> total],
                    scenarios |-> [nm \in m.causal_descriptions |-> Get(m.causal_counts, nm)]],
        data_quality |-> [dirty_rows |-> m.dirty_rows,
                          dirty_share |-> [num |-> m.dirty_rows, den |-> total],
                          issues_by_type |-> m.dirty_counts],
        synth |-> m.synth_info]

-----------------------------------------------------------------------------
(* A MetadataCollector driven directly: any sequence of updates, then finalize *)

\* The chunks handed to update: rows as the scenarios label them, clean or
\* marked dirty with one issue tag.
MetadataRow(i, dirty) ==
    [InjectorRow(i) EXCEPT
        !.is_dirty = dirty,
        !.dirty_issues = IF dirty THEN <<"TYPOS_NOISE">> ELSE <<>>]

MetadataFrames ==
    UNION {{[i \in 1..n |-> MetadataRow(i, i \in D)] : D \in SUBSET (1..n)} :
              n \in 0..MaxBatch}

\* The dirty_issues arguments of update: None, or a Counter with or without
\* the "__rows__" entry; the counter need not agree with the frame.
MetadataArgs ==
    {[given |-> FALSE, counter |-> <<>>], [given |-> TRUE, counter |-> <<>>]}
    \cup {[given |-> TRUE, counter |-> [k \in {"__rows__"} |-> r]] : r \in {0, MaxBatch}}
    \cup {[given |-> TRUE,
           counter |-> [k \in {"__rows__", "TYPOS_NOISE"} |->
                           IF k = "__rows__" THEN r ELSE 1]] :
              r \in {0, MaxBatch}}

MetadataInit ==
    /\ pc = "meta"
    /\ meta = NewMetadata
    /\ hist = [updates |-> 0, rows |-> 0, arg |-> [given |-> FALSE, counter |-> <<>>]]
    /\ chunk = <<>>
    /\ output = [none |-> TRUE]
    /\ cfg = [records |-> 0]
    /\ entries = <<>>
    /\ generated = 0
    /\ issues = <<>>
    /\ written = <<>>
    /\ inj = [none |-> TRUE]
    /\ scn = [name |-> "none"]
    /\ takes = <<>>
    /\ dqin = [none |-> TRUE]
    /\ dqout = [none |-> TRUE]

\* One call collector.update(df, dirty_issues=arg).
CallUpdate ==
    /\ pc = "meta"
    /\ hist.updates < MaxCalls
    /\ \E df \in MetadataFrames, arg \in MetadataArgs :
          /\ meta' = MetadataUpdate(meta, df, arg)
          /\ chunk' = df
          /\ hist' = [updates |-> hist.updates + 1, rows |-> hist.rows + Len(df),
                      arg |-> arg]
    /\ UNCHANGED <<pc, cfg, entries, generated, issues, written, output, inj, scn,
                   takes, dqin, dqout>>

\* The call collector.finalize() that ends the sequence.
CallFinalize ==
    /\ pc = "meta"
    /\ output' = MetadataFinalize(meta)
    /\ pc' = "finalized"
    /\ UNCHANGED <<cfg, entries, generated, chunk, issues, meta, written, inj, scn,
                   hist, takes, dqin, dqout>>

MetadataNext == CallUpdate \/ CallFinalize

MetadataSpec == MetadataInit /\ [][MetadataNext]_vars

-----------------------------------------------------------------------------
(* Synthesizer calibration *)

\* ALLOWED_COLUMNS of the faker provider, restricted to the columns of the model.
ALLOWED_COLUMNS == {"device_id"}

\* calibrate_columns of the backend: 'none' returns the frame as it is; faker
\* regenerates the allowed columns, restores the key columns and rewrites the alias.
CalibrateColumns(backend, df, cols) ==
    IF backend = "none" THEN df
    ELSE [i \in DOMAIN df |->
            [df[i] EXCEPT
                !.device_id = IF "device_id" \in Range(cols) \cap ALLOWED_COLUMNS
                              THEN <<"DEV-faker">> ELSE @,
                !.is_casual_fraud = df[i].is_causal_fraud]]

\* The keys of FACTORY.
FACTORY == {"none", "faker", "sdv", "ydata", "synthcity", "smartnoise"}

\* The extra each adapter's __init__ names when its import fails.
ExtraOf(key) == IF key = "smartnoise" THEN "dp" ELSE key

\* backend.lower() on the names of the model
Lower(name) ==
    CASE name = "NONE" -> "none"
      [] name = "Faker" -> "faker"
      [] OTHER -> name

\* Sensitivity variant of CreateSynthesizer: an unavailable backend falls
\* back to the no-op synthesizer.
CreateSynthesizerFallingBack(backend, installed) ==
    LET backend_key == Lower(backend)
    IN IF backend_key \notin FACTORY \/ (backend_key /= "none" /\ backend_key \notin installed)
       THEN [raised |-> FALSE, synthesizer |-> "none", info |-> [backend |-> backend_key]]
       ELSE [raised |-> FALSE, synthesizer |-> backend_key,
             info |-> [backend |-> backend_key]]

\* create_synthesizer(backend, ...) with the optional packages `installed`
\* importable: the MissingExtraError raised, or the synthesizer and its info.
CreateSynthesizer(backend, installed) ==
    LET backend_key == Lower(backend)
    IN IF backend_key \notin FACTORY
       THEN [raised |-> TRUE, extra |-> backend_key]
       ELSE IF backend_key /= "none" /\ backend_key \notin installed
            THEN [raised |-> TRUE, extra |-> ExtraOf(backend_key)]
            ELSE [raised |-> FALSE, synthesizer |-> backend_key,
                  info |-> [backend |-> backend_key]]

\* synthesizer.calibrate_columns(df, cols, key_cols) of the synthesizer built
\* for `key`: the placeholder adapters raise.
SynthCalibrate(key, df, cols) ==
    IF key \in {"none", "faker"}
    THEN [raised |-> FALSE, df |-> CalibrateColumns(key, df, cols)]
    ELSE [raised |-> TRUE, extra |-> ExtraOf(key)]

-----------------------------------------------------------------------------
(* Orchestrator: TransactionGenerator.run *)

\* int(round(records * rate)) for the rate k / RateDen
RoundedShare(records, k) == RoundHalfEven(records * k, RateDen)

\* The data-quality configurations of the runs: disabled ones at every dirty
\* rate, and enabled ones over a two-issue and a single-issue distribution at
\* the dirty rate 0.5 (any subset of the rows is drawn).
RunIssueDists ==
    {[k \in S |-> Raw(1)] :
        S \in {{"MISSING_VALUES", "TYPOS_NOISE"}, {"DUPLICATE_ROWS"}}}

RunDQInputs ==
    [enabled : {FALSE}, row_dirty_rate : DirtyRates, issue_dist : {<<>>},
     max_issues_per_row : {1}]
    \cup
    [enabled : {TRUE}, row_dirty_rate : {[num |-> 1, den |-> 2]},
     issue_dist : RunIssueDists,
     max_issues_per_row : 1..MaxIssuesPerRow]

SynthOptions ==
    {[backend |-> "none", calibrate_cols |-> <<>>],
     [backend |-> "faker", calibrate_cols |-> <<"device_id">>]}

\* Valid GeneratorConfigs: records >= 1, chunk_size >= 1, rates in [0, 1] with
\* causal_fraud_rate <= fraud_rate, a constructed DataQualityConfig.
RunConfigs ==
    {[records |-> r, chunk_size |-> c, fraud_rate |-> f, causal_fraud |-> cf,
      causal_fraud_rate |-> cr, data_quality |-> ValidateDist(dq).cfg, synth |-> sy] :
        r \in 1..MaxRecords, c \in 1..MaxChunk,
        f \in 0..RateDen, cf \in BOOLEAN, cr \in 0..RateDen,
        dq \in {d \in RunDQInputs : ValidateDist(d).ok}, sy \in SynthOptions}

NoWriter == [rows |-> 0, chunks |-> 0, dirty_rows |-> 0, tagged_rows |-> 0,
             alias_ok |-> TRUE, finalized |-> 0]

\* A run starts from a config that passed _validate_causal.  With causal_fraud
\* off the causal rate is not read; the rates 0 and fraud_rate stand for all.
RunInit ==
    /\ pc = "start"
    /\ cfg \in {c \in RunConfigs :
                   /\ c.causal_fraud_rate <= c.fraud_rate
                   /\ ~c.causal_fraud => c.causal_fraud_rate \in {0, c.fraud_rate}}
    /\ entries = <<>>
    /\ generated = 0
    /\ chunk = <<>>
    /\ issues = <<>>
    /\ meta = NewMetadata
    /\ written = NoWriter
    /\ output = [none |-> TRUE]
    /\ inj = [none |-> TRUE]
    /\ scn = [name |-> "none"]
    /\ hist = NoHist
    /\ takes = <<>>
    /\ dqin = [none |-> TRUE]
    /\ dqout = [none |-> TRUE]

\* Sensitivity variant of RowTargets: the baseline rows are what the fraud
\* share leaves, not what the causal share leaves.
RowTargetsLessFraud(c) ==
    LET total_records == c.records
        fraud_total == RoundedShare(c.records, c.fraud_rate)
        causal_total == IF c.causal_fraud
                        THEN RoundedShare(c.records, c.causal_fraud_rate) ELSE 0
        simpson_rows == causal_total \div 2
    IN [total_records |-> total_records, fraud_total |-> fraud_total,
        causal_total |-> causal_total,
        baseline_rows |-> Max(total_records - fraud_total, 0),
        baseline_fraud |-> Max(fraud_total - causal_total, 0),
        simpson_rows |-> simpson_rows,
        collider_rows |-> causal_total - simpson_rows]

\* The scenario row targets run computes (lines 73-79).
RowTargets(c) ==
    LET total_records == c.records
        fraud_total == RoundedShare(c.records, c.fraud_rate)
        causal_total == IF c.causal_fraud
                        THEN RoundedShare(c.records, c.causal_fraud_rate) ELSE 0
        simpson_rows == causal_total \div 2
    IN [total_records |-> total_records, fraud_total |-> fraud_total,
        causal_total |-> causal_total,
        baseline_rows |-> Max(total_records - causal_total, 0),
        baseline_fraud |-> Max(fraud_total - causal_total, 0),
        simpson_rows |-> simpson_rows,
        collider_rows |-> causal_total - simpson_rows]

Entry(name, targets) ==
    [name |-> name, scenario |-> NewScenario(name, targets),
     remaining |-> targets.total_rows]

\* Sensitivity variant of ScenarioEntries: the causal scenarios come before
\* the baseline.
ScenarioEntriesCausalFirst(c) ==
    LET t == RowTargets(c)
        baseline == Entry("baseline",
                          [total_rows |-> t.baseline_rows, fraud_rows |-> t.baseline_fraud,
                           causal_rows |-> 0])
        causal(name, rows) ==
            Entry(name, [total_rows |-> rows, fraud_rows |-> rows, causal_rows |-> rows])
    IN IF c.causal_fraud /\ t.causal_total > 0
       THEN <<causal("causal_simpson", t.simpson_rows),
              causal("causal_collider", t.collider_rows), baseline>>
       ELSE <<baseline>>

\* scenario_entries as run builds them (lines 86-129).
ScenarioEntries(c) ==
    LET t == RowTargets(c)
        baseline == Entry("baseline",
                          [total_rows |-> t.baseline_rows, fraud_rows |-> t.baseline_fraud,
                           causal_rows |-> 0])
        causal(name, rows) ==
            Entry(name, [total_rows |-> rows, fraud_rows |-> rows, causal_rows |-> rows])
    IN IF c.causal_fraud /\ t.causal_total > 0
       THEN <<baseline, causal("causal_simpson", t.simpson_rows),
              causal("causal_collider", t.collider_rows)>>
       ELSE <<baseline>>

\* run, lines 51-132: collaborators are built, causal descriptions registered,
\* targets computed and the scenario entries and the injector created.
RunSetup ==
    /\ pc = "start"
    /\ meta' = [meta EXCEPT !.causal_descriptions =
                   IF cfg.causal_fraud THEN {"causal_simpson", "causal_collider"} ELSE {}]
    /\ entries' = ScenarioEntries(cfg)
    /\ inj' = NewInjector(cfg.data_quality)
    /\ generated' = 0
    /\ pc' = "loop"
    /\ UNCHANGED <<cfg, chunk, issues, written, output, scn, hist, takes, dqin, dqout>>

RECURSIVE ScenarioLoop(_, _, _, _, _)
\* The for loop over scenario_entries of one chunk iteration (lines 139-148):
\* every way it may end, as the entries, the frames in order and the calls made.
ScenarioLoop(ents, i, produced, chunk_size, acc) ==
    IF i > Len(ents) \/ produced >= chunk_size
    THEN {[entries |-> ents, frames |-> acc.frames, calls |-> acc.calls]}
    ELSE IF ents[i].remaining <= 0
         THEN ScenarioLoop(ents, i + 1, produced, chunk_size, acc)
         ELSE LET take == Min(ents[i].remaining, chunk_size - produced)
              IN UNION {ScenarioLoop(
                            [ents EXCEPT ![i] = [@ EXCEPT !.scenario = out.scn,
                                                           !.remaining = @ - take]],
                            i + 1, produced + Len(out.df), chunk_size,
                            [frames |-> acc.frames \o out.df,
                             calls |-> Append(acc.calls, [name |-> ents[i].name, n |-> take])]) :
                           out \in Generate(ents[i].scenario, take, RunDraws)}

\* Sensitivity variant of RunGenerate: the iteration asks for everything that
\* is still to be generated, without capping it by output.chunk_size.
RunGenerateWholeRemainder ==
    /\ pc = "loop"
    /\ IF generated >= cfg.records
       THEN /\ pc' = "finalize"
            /\ UNCHANGED <<entries, chunk, takes>>
       ELSE \E out \in ScenarioLoop(entries, 1, 0, cfg.records - generated,
                                    [frames |-> <<>>, calls |-> <<>>]) :
              /\ entries' = out.entries
              /\ takes' = out.calls
              /\ IF out.calls = <<>>
                 THEN /\ pc' = "finalize"
                      /\ UNCHANGED chunk
                 ELSE /\ chunk' = out.frames
                      /\ pc' = "calibrate"
    /\ UNCHANGED <<cfg, generated, issues, meta, written, output, inj, scn, hist,
                   dqin, dqout>>

\* One pass of the while loop up to pd.concat (lines 135-151): the loop is left
\* when generated has reached the total or when no scenario produced a frame.
RunGenerate ==
    /\ pc = "loop"
    /\ IF generated >= cfg.records
       THEN /\ pc' = "finalize"
            /\ UNCHANGED <<entries, chunk, takes>>
       ELSE \E out \in ScenarioLoop(entries, 1, 0,
                                    Min(cfg.chunk_size, cfg.records - generated),
                                    [frames |-> <<>>, calls |-> <<>>]) :
              /\ entries' = out.entries
              /\ takes' = out.calls
              /\ IF out.calls = <<>>
                 THEN /\ pc' = "finalize"
                      /\ UNCHANGED chunk
                 ELSE /\ chunk' = out.frames
                      /\ pc' = "calibrate"
    /\ UNCHANGED <<cfg, generated, issues, meta, written, output, inj, scn, hist,
                   dqin, dqout>>

\* Lines 152-158: the optional synthesizer calibration pass.
RunCalibrate ==
    /\ pc = "calibrate"
    /\ chunk' = IF cfg.synth.calibrate_cols /= <<>>
                THEN CalibrateColumns(cfg.synth.backend, chunk, cfg.synth.calibrate_cols)
                ELSE chunk
    /\ pc' = "inject"
    /\ UNCHANGED <<cfg, entries, generated, issues, meta, written, output, inj,
                   scn, hist, takes, dqin, dqout>>

\* Lines 159-163: injector.apply is called when data quality is enabled, else
\* the issue counter is an empty Counter.
RunInject ==
    /\ pc = "inject"
    /\ IF cfg.data_quality.enabled
       THEN /\ pc' = "apply"
            /\ UNCHANGED issues
       ELSE /\ pc' = "applied"
            /\ issues' = <<>>
    /\ UNCHANGED <<cfg, entries, generated, chunk, meta, written, output, inj,
                   scn, hist, takes, dqin, dqout>>

\* Sensitivity variant of RunUpdate: the iteration goes on to the next chunk
\* without handing the frame to the writer.
RunUpdateSkipsWrite ==
    /\ pc = "applied"
    /\ meta' = MetadataUpdate(meta, chunk, [given |-> TRUE, counter |-> issues])
    /\ pc' = "loop"
    /\ UNCHANGED <<cfg, entries, generated, chunk, issues, written, output, inj,
                   scn, hist, takes, dqin, dqout>>

\* Line 164: metadata.update(chunk_df, dirty_issues=issues)
RunUpdate ==
    /\ pc = "applied"
    /\ meta' = MetadataUpdate(meta, chunk, [given |-> TRUE, counter |-> issues])
    /\ pc' = "write"
    /\ UNCHANGED <<cfg, entries, generated, chunk, issues, written, output, inj,
                   scn, hist, takes, dqin, dqout>>

\* writer.write(df): the writer appends the rows; the model keeps their tallies.
WriterWrite(w, df) ==
    [w EXCEPT
        !.rows = @ + Len(df),
        !.chunks = @ + 1,
        !.dirty_rows = @ + Count(df, "is_dirty"),
        !.tagged_rows = @ + Cardinality({i \in DOMAIN df : df[i].dirty_issues /= <<>>}),
        !.alias_ok = @ /\ \A i \in DOMAIN df :
                              /\ "is_casual_fraud" \in DOMAIN df[i]
                              /\ df[i].is_casual_fraud = df[i].is_causal_fraud]

\* Sensitivity variant of RunWrite: generated counts the chunks written, not
\* their rows.
RunWriteCountingChunks ==
    /\ pc = "write"
    /\ written' = WriterWrite(written, chunk)
    /\ generated' = generated + 1
    /\ pc' = "loop"
    /\ chunk' = <<>>
    /\ issues' = <<>>
    /\ hist' = NoHist
    /\ takes' = <<>>
    /\ UNCHANGED <<cfg, entries, meta, output, inj, scn, dqin, dqout>>

\* Lines 165-166: writer.write(chunk_df); generated += chunk_df.shape[0].
\* The locals of the iteration (the frame, the counter, the records kept of the
\* calls) are dead from here on and are reset.
RunWrite ==
    /\ pc = "write"
    /\ written' = WriterWrite(written, chunk)
    /\ generated' = generated + Len(chunk)
    /\ pc' = "loop"
    /\ chunk' = <<>>
    /\ issues' = <<>>
    /\ hist' = NoHist
    /\ takes' = <<>>
    /\ UNCHANGED <<cfg, entries, meta, output, inj, scn, dqin, dqout>>

\* Lines 168-171: set_synth_info, metadata.finalize, writer.finalize, return.
RunFinalize ==
    /\ pc = "finalize"
    /\ meta' = [meta EXCEPT !.synth_info = cfg.synth.backend]
    /\ output' = MetadataFinalize(meta')
    /\ written' = [written EXCEPT !.finalized = @ + 1]
    /\ pc' = "done"
    /\ UNCHANGED <<cfg, entries, generated, chunk, issues, inj, scn, hist, takes,
                   dqin, dqout>>

Next ==
    \/ RunSetup
    \/ RunGenerate
    \/ RunCalibrate
    \/ RunInject
    \/ Apply
    \/ RunUpdate
    \/ RunWrite
    \/ RunFinalize

Init == RunInit

Spec == Init /\ [][Next]_vars

\* The statements of run follow one another without waiting on anything.

\* A run proceeds while a step is enabled: the program is sequential.
FairSpec == Spec /\ WF_vars(Next)

-----------------------------------------------------------------------------
(* CausalSimpsonScenario._select_low_amount_indices driven directly *)

\* The frames handed to _select_low_amount_indices: rows of generate's base
\* frame with the default RangeIndex, amounts and regions as drawn.
SelectFrames ==
    UNION {[1..n -> {"EAST", "NORTH", "SOUTH"} \X {100, 200}] : n \in 1..MaxSelect}

\* generate calls it with desired = min(remaining fraud quota, n) > 0.
SelectInit ==
    /\ pc = "select"
    /\ \E f \in SelectFrames : \E count \in 1..Len(f) :
          hist = [df |-> AsSeq([i \in DOMAIN f |-> BaseRow(i, f[i][2], f[i][1])]),
                  count |-> count, indices |-> <<>>]
    /\ takes = <<>>
    /\ cfg = [records |-> 0]
    /\ entries = <<>>
    /\ generated = 0
    /\ chunk = <<>>
    /\ issues = <<>>
    /\ meta = [total_records |-> 0]
    /\ written = <<>>
    /\ output = [none |-> TRUE]
    /\ inj = [none |-> TRUE]
    /\ scn = [name |-> "causal_simpson"]
    /\ dqin = [none |-> TRUE]
    /\ dqout = [none |-> TRUE]

\* The call _select_low_amount_indices(df, count).
CallSelect ==
    /\ pc = "select"
    /\ \E ix \in SelectLowAmountIndices(hist.df, hist.count) :
          hist' = [hist EXCEPT !.indices = ix]
    /\ pc' = "selected"
    /\ UNCHANGED <<cfg, entries, generated, chunk, issues, meta, written, output,
                   inj, scn, takes, dqin, dqout>>

SelectSpec == SelectInit /\ [][CallSelect]_vars

-----------------------------------------------------------------------------
(* DataQualityConfig construction driven directly *)

ConfigInit ==
    /\ pc = "config"
    /\ dqin \in DQInputs(MaxWeight)
    /\ dqout = [none |-> TRUE]
    /\ cfg = [records |-> 0]
    /\ entries = <<>>
    /\ generated = 0
    /\ chunk = <<>>
    /\ issues = <<>>
    /\ meta = [total_records |-> 0]
    /\ written = <<>>
    /\ output = [none |-> TRUE]
    /\ inj = [none |-> TRUE]
    /\ scn = [name |-> "none"]
    /\ hist = NoHist
    /\ takes = <<>>

\* DataQualityConfig(enabled=..., row_dirty_rate=..., issue_dist=...,
\* max_issues_per_row=...): the model is built and its validator runs.
Construct ==
    /\ pc = "config"
    /\ dqout' = ValidateDist(dqin)
    /\ pc' = "constructed"
    /\ UNCHANGED <<cfg, entries, generated, chunk, issues, meta, written, output,
                   inj, scn, hist, takes, dqin>>

ConfigNext == Construct

ConfigSpec == ConfigInit /\ [][ConfigNext]_vars

-----------------------------------------------------------------------------
(* GeneratorConfig construction driven directly *)

\* The messages of the ConfigurationErrors config.py raises.
ConfigurationErrors ==
    {"Distribution total must be positive",
     "issue_dist must be provided when dirty data is enabled",
     "Invalid key for distribution",
     "causal_fraud_rate must be <= fraud_rate"}

\* _normalize_enum_mapping(mapping, allowed)
NormalizeEnumMapping(mapping, allowed) ==
    IF \E k \in DOMAIN mapping : k \notin allowed
    THEN [ok |-> FALSE, error |-> "Invalid key for distribution"]
    ELSE NormalizeDist(mapping)

\* Weight mappings over the subsets of `keys`, integer weights -1..1.
WeightMaps(keys) == UNION {[S -> {Raw(x) : x \in -1..1}] : S \in SUBSET keys}

\* An optional mapping field: None, or a mapping over one key.
OptionalMaps(key) ==
    {[set |-> FALSE]} \cup {[set |-> TRUE, value |-> m] : m \in WeightMaps({key}) \ {<<>>}}

\* The data_quality arguments: the default, valid ones, and non-empty mappings
\* of zero, negative and positive total.
NestedDQInputs ==
    {[enabled |-> e, row_dirty_rate |-> [num |-> 1, den |-> 2], issue_dist |-> d,
      max_issues_per_row |-> 1] :
        e \in BOOLEAN,
        d \in {<<>>,
               [k \in {"MISSING_VALUES"} |-> Raw(1)],
               [k \in {"MISSING_VALUES"} |-> Raw(0)],
               [k \in {"MISSING_VALUES", "TYPOS_NOISE"} |->
                   IF k = "MISSING_VALUES" THEN Raw(-1) ELSE Raw(1)],
               [k \in {"MISSING_VALUES", "TYPOS_NOISE"} |->
                   IF k = "MISSING_VALUES" THEN Raw(-2) ELSE Raw(1)]}}

\* The arguments of GeneratorConfig(...) that carry weight mappings or are
\* read by _validate_causal.
GeneratorInputs ==
    [age_dist : WeightMaps({"A18_25", "A26_35"}),
     channel_dist : OptionalMaps("WEB"),
     region_dist : OptionalMaps("SOUTH"),
     merchant_category_dist : OptionalMaps("travel"),
     fraud_rate : {1},
     fraud_type_dist : OptionalMaps("SKIMMING"),
     causal_fraud_rate : {0, RateDen},
     data_quality : NestedDQInputs]

\* GeneratorConfig(...): the field validators in field order, the nested
\* DataQualityConfig, then _validate_causal; the first exception leaves.
ValidateGenerator(in) ==
    LET age == NormalizeEnumMapping(in.age_dist, {"A18_25", "A26_35", "A36_50", "A50_PLUS"})
        opt(v, r) == IF v.set THEN r ELSE [ok |-> TRUE]
        channel == opt(in.channel_dist,
                       NormalizeEnumMapping(in.channel_dist.value,
                                            {"APP", "WEB", "ATM", "POS", "WIRE"}))
        region == opt(in.region_dist, NormalizeEnumMapping(in.region_dist.value, Regions))
        merchant == opt(in.merchant_category_dist,
                        NormalizeDist(in.merchant_category_dist.value))
        fraud == opt(in.fraud_type_dist,
                     NormalizeEnumMapping(in.fraud_type_dist.value,
                                          {"CARD_NOT_PRESENT", "ACCOUNT_TAKEOVER", "SKIMMING",
                                           "AUTHORIZED_PUSH_PAYMENT", "CARD_PRESENT_CLONED",
                                           "SYNTHETIC_IDENTITY", "FRIENDLY_FRAUD",
                                           "MONEY_MULE", "SOCIAL_ENGINEERING"}))
        dq == ValidateDist(in.data_quality)
        filled(v, r) == IF v.set THEN [set |-> TRUE, value |-> r.dist] ELSE v
    IN IF ~age.ok THEN age
       ELSE IF ~channel.ok THEN channel
       ELSE IF ~region.ok THEN region
       ELSE IF ~merchant.ok THEN merchant
       ELSE IF ~fraud.ok THEN fraud
       ELSE IF ~dq.ok THEN dq
       ELSE IF in.causal_fraud_rate > in.fraud_rate
            THEN [ok |-> FALSE, error |-> "causal_fraud_rate must be <= fraud_rate"]
       ELSE [ok |-> TRUE,
             cfg |-> [in EXCEPT
                        !.age_dist = age.dist,
                        !.channel_dist = filled(@, channel),
                        !.region_dist = filled(@, region),
                        !.merchant_category_dist = filled(@, merchant),
                        !.fraud_type_dist =
                            IF @.set THEN fraud.dist
                            ELSE [k \in {"CARD_NOT_PRESENT"} |-> Raw(1)],
                        !.data_quality = dq.cfg]]

GeneratorConfigInit ==
    /\ pc = "config"
    /\ dqin \in GeneratorInputs
    /\ dqout = [none |-> TRUE]
    /\ cfg = [records |-> 0]
    /\ entries = <<>>
    /\ generated = 0
    /\ chunk = <<>>
    /\ issues = <<>>
    /\ meta = [total_records |-> 0]
    /\ written = <<>>
    /\ output = [none |-> TRUE]
    /\ inj = [none |-> TRUE]
    /\ scn = [name |-> "none"]
    /\ hist = NoHist
    /\ takes = <<>>

\* GeneratorConfig(...): the model is built and its validators run.
ConstructGenerator ==
    /\ pc = "config"
    /\ dqout' = ValidateGenerator(dqin)
    /\ pc' = "constructed"
    /\ UNCHANGED <<cfg, entries, generated, chunk, issues, meta, written, output,
                   inj, scn, hist, takes, dqin>>

GeneratorConfigSpec == GeneratorConfigInit /\ [][ConstructGenerator]_vars

-----------------------------------------------------------------------------
(* Normalisation of a weight mapping driven directly *)

\* Mappings over the age bands with integer weights -1..MaxWeight + 1.
NormalizeInputs ==
    UNION {[S -> {Raw(x) : x \in -1..(MaxWeight + 1)}] :
              S \in SUBSET {"A18_25", "A26_35", "A36_50", "A50_PLUS"}}

NormalizeInit ==
    /\ pc = "normalize"
    /\ dqin \in NormalizeInputs
    /\ dqout = [none |-> TRUE]
    /\ cfg = [records |-> 0]
    /\ entries = <<>>
    /\ generated = 0
    /\ chunk = <<>>
    /\ issues = <<>>
    /\ meta = [total_records |-> 0]
    /\ written = <<>>
    /\ output = [none |-> TRUE]
    /\ inj = [none |-> TRUE]
    /\ scn = [name |-> "none"]
    /\ hist = NoHist
    /\ takes = <<>>

\* The call _normalize_enum_mapping(mapping, age bands), which ends in
\* _normalize_dist.
CallNormalize ==
    /\ pc = "normalize"
    /\ dqout' = NormalizeEnumMapping(dqin, {"A18_25", "A26_35", "A36_50", "A50_PLUS"})
    /\ pc' = "normalized"
    /\ UNCHANGED <<cfg, entries, generated, chunk, issues, meta, written, output,
                   inj, scn, hist, takes, dqin>>

NormalizeSpec == NormalizeInit /\ [][CallNormalize]_vars

-----------------------------------------------------------------------------
(* The synthesizer factory driven directly *)

SynthInit ==
    /\ pc = "create"
    /\ dqin \in [backend : FACTORY \cup {"NONE", "Faker", "ctgan"},
                 installed : SUBSET (FACTORY \ {"none"})]
    /\ dqout = [none |-> TRUE]
    /\ cfg = [records |-> 0]
    /\ entries = <<>>
    /\ generated = 0
    /\ chunk = <<>>
    /\ issues = <<>>
    /\ meta = [total_records |-> 0]
    /\ written = <<>>
    /\ output = [none |-> TRUE]
    /\ inj = [none |-> TRUE]
    /\ scn = [name |-> "none"]
    /\ hist = NoHist
    /\ takes = <<>>

\* The call create_synthesizer(backend, calibrate_cols=..., condition_cols=...).
CallCreate ==
    /\ pc = "create"
    /\ dqout' = CreateSynthesizer(dqin.backend, dqin.installed)
    /\ pc' = IF dqout'.raised THEN "raised" ELSE "created"
    /\ UNCHANGED <<cfg, entries, generated, chunk, issues, meta, written, output,
                   inj, scn, hist, takes, dqin>>

\* A call calibrate_columns(df, cols, key_cols) on the synthesizer returned.
CallCalibrateColumns ==
    /\ pc = "created"
    /\ \E df \in InjectorFrames, cols \in {<<>>, <<"device_id">>} :
          /\ chunk' = df
          /\ output' = SynthCalibrate(dqout.synthesizer, df, cols)
    /\ pc' = "calibrated"
    /\ UNCHANGED <<cfg, entries, generated, issues, meta, written, inj, scn, hist,
                   takes, dqin, dqout>>

SynthNext == CallCreate \/ CallCalibrateColumns

SynthSpec == SynthInit /\ [][SynthNext]_vars

-----------------------------------------------------------------------------
(* Reference profiling: ReferenceProfiler.fit *)

\* The largest reference dataset, in rows.
MaxRef == 7

\* ReferenceFitConfig.fit_max_categories is validated ge=5; the smallest
\* value stands for all.
MinFitCategories == 5

\* Draws of the Laplace noise, in the unit of one row count.
NoiseDraws == {-2, 1}

MerchantNames == <<"m1", "m2", "m3", "m4", "m5", "m6">>

\* Row i of a reference dataset with d merchant categories used in turn and
\* the first h rows at hour 0, the others at hour 23; amounts are 1.00.
RefRow(i, d, h) ==
    [age_band |-> "A18_25", channel |-> "APP", region |-> "NORTH",
     merchant_category |-> MerchantNames[((i - 1) % d) + 1],
     is_fraud |-> (i = 1 /\ d = 2), fraud_type |-> "SKIMMING",
     amount |-> 100, hour |-> IF i <= h THEN 0 ELSE 23]

RefFrames(maxRows) ==
    {[i \in 1..n |-> RefRow(i, d, h)] :
        n \in 0..maxRows, d \in {2, Len(MerchantNames)}, h \in 0..1}

FitConfigs == [dp_epsilon : {"None", "set"}, fit_max_categories : {MinFitCategories}]

\* series.value_counts() of column col over the rows `rows`
ValueCounts(df, col, rows) ==
    [c \in {df[i][col] : i \in rows} |-> Cardinality({i \in rows : df[i][col] = c})]

\* .head(k) of value_counts: the k most frequent categories, ties at the cut
\* resolved either way.
Heads(counts, k) ==
    {S \in SUBSET DOMAIN counts :
        /\ Cardinality(S) = Min(k, Cardinality(DOMAIN counts))
        /\ \A a \in S, c \in DOMAIN counts \ S : counts[a] >= counts[c]}

\* counts + noise, clipped at 0: every outcome for the keys S.
Noised(counts, S, fc) ==
    {[c \in S |-> Max(counts[c] + nz[c], 0)] :
        nz \in IF fc.dp_epsilon = "None" THEN {[c \in S |-> 0]} ELSE [S -> NoiseDraws]}

\* _top_k, lines 50-57: the counts kept are divided by their own total, and
\* __OTHER__ gets what the shares leave of 1.
Normalized(counts) ==
    LET total == SumOver(counts, DOMAIN counts)
        other == total - SumOver(counts, DOMAIN counts)
    IN IF total <= 0 THEN <<>>
       ELSE [c \in DOMAIN counts \cup (IF other > 0 THEN {"__OTHER__"} ELSE {}) |->
                [num |-> IF c \in DOMAIN counts THEN counts[c] ELSE other, den |-> total]]

\* _top_k(series): the distributions it may return.
TopK(df, col, rows, fc) ==
    LET counts == ValueCounts(df, col, rows)
    IN UNION {{Normalized(nc) : nc \in Noised(counts, S, fc)} :
                 S \in Heads(counts, fc.fit_max_categories)}

\* Lines 74-82: the hour counts, noised and clipped, reindexed to 0..23 and
\* divided by their total or by 1 when the total is 0.
HourHists(df, fc) ==
    LET counts == ValueCounts(df, "hour", DOMAIN df)
    IN {LET total == SumOver(nc, DOMAIN nc)
        IN [hr \in 0..23 |->
              [num |-> IF hr \in DOMAIN nc THEN nc[hr] ELSE 0,
               den |-> IF total = 0 THEN 1 ELSE total]] :
          nc \in Noised(counts, DOMAIN counts, fc)}

\* ReferenceProfiler.fit(df, cfg): the exception for an empty frame, else
\* every profile the noise draws allow.
Fit(df, fc) ==
    IF df = <<>> THEN {[raised |-> TRUE]}
    ELSE LET fraud == {i \in DOMAIN df : df[i].is_fraud}
         IN {[raised |-> FALSE,
              age_dist |-> a, channel_dist |-> c, region_dist |-> r,
              merchant_category_dist |-> m,
              fraud_rate |-> [num |-> Cardinality(fraud), den |-> Len(df)],
              fraud_type_dist |-> f,
              amount_log_mean |-> 0, amount_log_sigma |-> 0,
              hour_hist |-> hh] :
                a \in TopK(df, "age_band", DOMAIN df, fc),
                c \in TopK(df, "channel", DOMAIN df, fc),
                r \in TopK(df, "region", DOMAIN df, fc),
                m \in TopK(df, "merchant_category", DOMAIN df, fc),
                f \in IF fraud /= {} THEN TopK(df, "fraud_type", fraud, fc) ELSE {<<>>},
                hh \in HourHists(df, fc)}

FitInit ==
    /\ pc = "fit"
    /\ chunk \in RefFrames(MaxRef)
    /\ cfg \in FitConfigs
    /\ output = [none |-> TRUE]
    /\ entries = <<>>
    /\ generated = 0
    /\ issues = <<>>
    /\ meta = [total_records |-> 0]
    /\ written = <<>>
    /\ inj = [none |-> TRUE]
    /\ scn = [name |-> "none"]
    /\ hist = NoHist
    /\ takes = <<>>
    /\ dqin = [none |-> TRUE]
    /\ dqout = [none |-> TRUE]

\* The call profiler.fit(df, cfg, rng).
CallFit ==
    /\ pc = "fit"
    /\ output' \in Fit(chunk, cfg)
    /\ pc' = IF output'.raised THEN "raised" ELSE "fitted"
    /\ UNCHANGED <<cfg, entries, generated, chunk, issues, meta, written, inj, scn,
                   hist, takes, dqin, dqout>>

FitNext == CallFit

FitSpec == FitInit /\ [][FitNext]_vars

-----------------------------------------------------------------------------
(* Calibration of a config from a profile: ConfigCalibrator.calibrate *)

\* The fields of GeneratorConfig that default to None.
OptionalFields ==
    {"channel_dist", "region_dist", "merchant_category_dist", "amount_model", "time_model"}

\* A value the caller gave for a field of GeneratorConfig, as the validators
\* leave it (distributions normalised).
UserValue(field) ==
    CASE field = "age_dist" ->
            [k \in {"A18_25", "A26_35"} |-> [num |-> 1, den |-> 2]]
      [] field = "channel_dist" -> [k \in {"WEB"} |-> [num |-> 1, den |-> 1]]
      [] field = "region_dist" -> [k \in {"SOUTH"} |-> [num |-> 1, den |-> 1]]
      [] field = "merchant_category_dist" -> [k \in {"travel"} |-> [num |-> 1, den |-> 1]]
      [] field = "fraud_type_dist" ->
            [k \in {"CARD_NOT_PRESENT"} |-> [num |-> 1, den |-> 1]]
      [] field = "amount_model" -> [log_mean |-> 3, log_sigma |-> 1]
      [] field = "time_model" ->
            [hour_hist |-> [hr \in 0..23 |-> [num |-> 1, den |-> 24]]]

\* The base configs: every choice of the optional fields given or left None.
BaseConfigs ==
    {[f \in OptionalFields \cup {"age_dist", "fraud_rate", "fraud_type_dist"} |->
         IF f \in OptionalFields
         THEN (IF f \in given THEN [set |-> TRUE, value |-> UserValue(f)]
               ELSE [set |-> FALSE])
         ELSE IF f = "fraud_rate" THEN [num |-> 1, den |-> RateDen]
         ELSE UserValue(f)] :
        given \in SUBSET OptionalFields}

\* The entry of `updates` for a field (lines 102-114).
ProfileValue(profile, field) ==
    CASE field = "channel_dist" -> profile.channel_dist
      [] field = "region_dist" -> profile.region_dist
      [] field = "merchant_category_dist" -> profile.merchant_category_dist
      [] field = "amount_model" ->
            [log_mean |-> profile.amount_log_mean, log_sigma |-> profile.amount_log_sigma]
      [] field = "time_model" -> [hour_hist |-> profile.hour_hist]

\* Sensitivity variant of Calibrate: every optional field is taken from the profile.
CalibrateOverriding(profile, base_cfg) ==
    [config |-> [f \in DOMAIN base_cfg |->
                    IF f \in OptionalFields
                    THEN [set |-> TRUE, value |-> ProfileValue(profile, f)]
                    ELSE base_cfg[f]],
     is_base |-> FALSE]

\* ConfigCalibrator.calibrate(profile, base_cfg): the config returned, and
\* whether it is the base_cfg object itself.
Calibrate(profile, base_cfg) ==
    LET updates == {f \in OptionalFields : ~base_cfg[f].set}
    IN IF updates = {}
       THEN [config |-> base_cfg, is_base |-> TRUE]
       ELSE [config |-> [f \in DOMAIN base_cfg |->
                            IF f \in updates
                            THEN [set |-> TRUE, value |-> ProfileValue(profile, f)]
                            ELSE base_cfg[f]],
             is_base |-> FALSE]

\* The profiles fit returns for the reference datasets of up to two rows.
CalibrationProfiles ==
    {pr \in UNION {Fit(df, fc) : df \in RefFrames(2), fc \in FitConfigs} : ~pr.raised}

CalibrateInit ==
    /\ pc = "calibrate"
    /\ cfg \in BaseConfigs
    /\ hist \in CalibrationProfiles
    /\ output = [none |-> TRUE]
    /\ chunk = <<>>
    /\ entries = <<>>
    /\ generated = 0
    /\ issues = <<>>
    /\ meta = [total_records |-> 0]
    /\ written = <<>>
    /\ inj = [none |-> TRUE]
    /\ scn = [name |-> "none"]
    /\ takes = <<>>
    /\ dqin = [none |-> TRUE]
    /\ dqout = [none |-> TRUE]

\* The call calibrator.calibrate(profile, base_cfg).
CallCalibrate ==
    /\ pc = "calibrate"
    /\ output' = Calibrate(hist, cfg)
    /\ pc' = "calibrated"
    /\ UNCHANGED <<cfg, entries, generated, chunk, issues, meta, written, inj, scn,
                   hist, takes, dqin, dqout>>

CalibrateNext == CallCalibrate

CalibrateSpec == CalibrateInit /\ [][CalibrateNext]_vars

-----------------------------------------------------------------------------
(* Properties *)

AliasInSync(df) ==
    \A i \in DOMAIN df :
        /\ "is_casual_fraud" \in DOMAIN df[i]
        /\ df[i].is_casual_fraud = df[i].is_causal_fraud

Ids(df) == [i \in DOMAIN df |-> df[i].transaction_id]

Distinct(s) == \A i, j \in DOMAIN s : i /= j => s[i] /= s[j]

\* The issues the log of an apply call records for row i, in order.
IssuesOf(log, i) ==
    SelectSeq([k \in DOMAIN log |-> IF log[k].idx = i THEN log[k].issue ELSE "-"],
              LAMBDA x : x /= "-")

\* C1: the row targets run computes (baseline_rows + simpson_rows +
\* collider_rows) sum to `records`; between chunk iterations the rows still
\* owed by the scenario entries plus the rows generated make `records`; and a
\* completed run has handed exactly `records` rows to writer.write and returns
\* metadata with counts.total_records = records.
C1_RunWritesRecords ==
    /\ LET t == RowTargets(cfg)
       IN t.baseline_rows + t.simpson_rows + t.collider_rows = cfg.records
    /\ pc = "loop" =>
          /\ SumSeq([i \in DOMAIN entries |-> entries[i].remaining]) + generated = cfg.records
          /\ written.rows = generated
    /\ pc = "done" =>
          /\ written.rows = cfg.records
          /\ output.counts.total_records = cfg.records

\* A completed three-scenario run of MaxRecords rows in several chunks, with
\* dirty injection on.
C1_Witness ==
    /\ pc = "done"
    /\ cfg.records = MaxRecords
    /\ Len(entries) = 3
    /\ written.chunks > 1
    /\ cfg.data_quality.enabled
    /\ written.dirty_rows > 0

\* C2: for a scenario instance of any of the three types, any targets and any
\* sequence of generate(n) calls, the cumulative number of rows flagged
\* is_fraud never exceeds fraud_rows and equals min(fraud_rows, rows generated
\* so far); each call flags exactly min(remaining fraud quota, n) rows.
C2_FraudFlagsExact ==
    /\ hist.fraud <= scn.targets.fraud_rows
    /\ hist.fraud = Min(scn.targets.fraud_rows, hist.rows)
    /\ hist.calls > 0 => hist.last_fraud = Min(hist.before, hist.last_n)

\* A causal_simpson instance whose last call was cut short by the quota.
C2_Witness ==
    /\ scn.name = "causal_simpson"
    /\ hist.calls = MaxCalls
    /\ hist.last_fraud > 0
    /\ hist.last_fraud < hist.last_n
    /\ hist.fraud = scn.targets.fraud_rows
    /\ hist.rows > hist.fraud

\* C3: for a scenario instance of any type and any targets (causal_rows <
\* fraud_rows included), after any sequence of generate calls the remaining
\* fraud and remaining causal counters are not negative and the cumulative
\* number of rows flagged is_causal_fraud does not exceed causal_rows.
C3_CausalQuotaRespected ==
    /\ scn.remaining_fraud >= 0
    /\ scn.remaining_causal >= 0
    /\ hist.causal <= scn.targets.causal_rows

\* The monotonicity half of C3: neither remaining counter ever increases.
C3_CountersNeverIncrease ==
    [][/\ scn'.remaining_fraud <= scn.remaining_fraud
       /\ scn'.remaining_causal <= scn.remaining_causal]_vars

\* C4: the chunk loop of run terminates for every configuration, and
\* metadata.finalize and writer.finalize are then reached: every run
\* eventually completes.
C4_RunReachesFinalize == <>(pc = "done")

\* Every run ends, completed or by the exception of apply: the loop itself
\* never runs forever.
C4_RunEnds == <>(pc \in {"done", "raised"})

\* The step-wise half of C4: an iteration that writes a chunk appends at least
\* one row to `generated`, and `generated` never passes `records`.
C4_IterationsAdvance ==
    [][(pc = "write" /\ pc' = "loop") =>
          (generated' > generated /\ generated' <= cfg.records)]_vars

\* C5: with data quality disabled (any row_dirty_rate), every row handed to the
\* writer has is_dirty false and an empty dirty_issues list, the chunk's issue
\* counter is empty, and the final metadata reports dirty_rows = 0 and no
\* issues_by_type entries; and apply on a disabled config, or on an empty
\* batch, returns the batch unchanged with an empty counter.
C5_DisabledIsNoOp ==
    /\ ~cfg.data_quality.enabled =>
          /\ \A i \in DOMAIN chunk : ~chunk[i].is_dirty /\ chunk[i].dirty_issues = <<>>
          /\ issues = <<>>
          /\ written.dirty_rows = 0
          /\ written.tagged_rows = 0
          /\ pc = "done" =>
                /\ output.data_quality.dirty_rows = 0
                /\ output.data_quality.issues_by_type = <<>>
          /\ pc /= "start" =>
                \A r \in ApplyOutcomes(inj, chunk) :
                    ~r.raised /\ r.df = chunk /\ r.counter = <<>>
    /\ pc /= "start" =>
          \A r \in ApplyOutcomes(inj, <<>>) :
              ~r.raised /\ r.df = <<>> /\ r.counter = <<>>

\* A completed run of MaxRecords rows with data quality disabled at a positive
\* dirty rate.
C5_Witness ==
    /\ pc = "done"
    /\ ~cfg.data_quality.enabled
    /\ cfg.data_quality.row_dirty_rate.num > 0
    /\ written.rows = MaxRecords
    /\ written.chunks > 1

\* C6: in every row of the batch at every stage of the pipeline (the frames the
\* scenarios return, the calibrated frame, the frame apply returns, the chunk
\* handed to the writer) the alias column is_casual_fraud is present and equal
\* to is_causal_fraud.
C6_AliasMirrorsCausal ==
    /\ AliasInSync(chunk)
    /\ written.alias_ok

\* A calibrated chunk about to be written in which duplication copied a row
\* over one with the opposite causal flag.
C6_Witness ==
    /\ pc = "write"
    /\ cfg.data_quality.enabled
    /\ cfg.synth.backend = "faker"
    /\ \E k \in DOMAIN hist.log :
          /\ hist.log[k].issue = "DUPLICATE_ROWS"
          /\ hist.input[hist.log[k].idx].is_causal_fraud
                /= hist.input[hist.log[k].source].is_causal_fraud

\* C7: apply returns a batch with exactly as many rows as its input, for every
\* enabled config, dirty rate and set of applied issues, DUPLICATE_ROWS
\* included.
C7_ApplyKeepsRowCount ==
    pc = "applied" => Len(chunk) = Len(hist.input)

\* A full batch in which every row was overwritten by duplication.
C7_Witness ==
    /\ pc = "applied"
    /\ Len(chunk) = MaxBatch
    /\ \A i \in DOMAIN chunk : "DUPLICATE_ROWS" \in Range(IssuesOf(hist.log, i))

\* C8: if the transaction ids of the input batch are pairwise distinct, the
\* transaction ids of the batch apply returns are pairwise distinct.
C8_IdsStayDistinct ==
    (pc = "applied" /\ Distinct(Ids(hist.input))) => Distinct(Ids(chunk))

\* C9: apply completes without raising, and each dirtied row received between
\* 1 and max_issues_per_row pairwise distinct issue types.
C9_IssueDrawIsCapped ==
    /\ pc /= "raised"
    /\ pc = "applied" =>
          \A i \in Range(hist.indices) :
              /\ Len(IssuesOf(hist.log, i)) \in 1..inj.cfg.max_issues_per_row
              /\ Distinct(IssuesOf(hist.log, i))

\* C10: constructing DataQualityConfig with enabled=True and no issue_dist
\* succeeds, and the issue_dist of the result is uniform over the six issue
\* types.
C10_DefaultDistWhenEnabled ==
    (pc = "constructed" /\ dqin.enabled /\ DOMAIN dqin.issue_dist = {}) =>
        /\ dqout.ok
        /\ DOMAIN dqout.cfg.issue_dist = Range(IssueTypes)
        /\ \A k \in Range(IssueTypes) : dqout.cfg.issue_dist[k] = [num |-> 1, den |-> 6]

\* C11: when update is given a counter, dirty_rows grows by exactly the
\* counter's "__rows__" entry and every issue tally by the counter's entry for
\* that issue; the is_dirty and dirty_issues columns of the chunk add nothing.
C11_CounterIsTheOnlySource ==
    [][(pc = "meta" /\ hist'.updates = hist.updates + 1 /\ hist'.arg.given) =>
          /\ meta'.dirty_rows = meta.dirty_rows + Get(hist'.arg.counter, "__rows__")
          /\ \A t \in Range(IssueTypes) :
                Get(meta'.dirty_counts, t)
                    = Get(meta.dirty_counts, t) + Get(hist'.arg.counter, t)
          /\ Get(meta'.dirty_counts, "__rows__") = 0]_vars

\* An update whose counter disagrees with the dirty columns of its chunk.
C11_Witness ==
    /\ pc = "meta"
    /\ hist.updates = 1
    /\ hist.arg.given
    /\ Get(hist.arg.counter, "__rows__") = 2
    /\ Get(hist.arg.counter, "TYPOS_NOISE") = 1
    /\ Count(chunk, "is_dirty") = 1
    /\ meta.dirty_rows = 2

\* C12: finalize reports counts.total_records as the sum of the row counts of
\* the chunks passed to update, for every sequence of updates, the empty one
\* included (0 is reported as 0).
C12_TotalIsSumOfChunks ==
    pc = "finalized" => output.counts.total_records = hist.rows

\* C12, the part the code keeps: a positive sum is reported as it is, and the
\* shares are taken over max(sum, 1).
C12_PositiveTotalReported ==
    pc = "finalized" =>
        /\ hist.rows > 0 => output.counts.total_records = hist.rows
        /\ output.data_quality.dirty_share.den = Max(hist.rows, 1)
        /\ output.causal.causal_fraud_share.den = Max(hist.rows, 1)


\* C13: in a completed run with dirty injection enabled, the metadata's
\* data_quality.dirty_rows is the number of rows written with is_dirty true,
\* summed over the chunks, and dirty_share is positive exactly when at least
\* one written row is dirty.
C13_DirtyRowsMatchWritten ==
    (pc = "done" /\ cfg.data_quality.enabled) =>
        /\ output.data_quality.dirty_rows = written.dirty_rows
        /\ (output.data_quality.dirty_share.num > 0) <=> (written.dirty_rows > 0)
        /\ output.data_quality.dirty_share.den = written.rows

\* A completed run of two chunks with injection enabled, some rows written
\* dirty and some clean.
C13_Witness ==
    /\ pc = "done"
    /\ cfg.data_quality.enabled
    /\ written.chunks >= 2
    /\ written.dirty_rows >= 1
    /\ written.dirty_rows < written.rows
    /\ output.data_quality.dirty_rows = written.dirty_rows

\* C15: without noise, for a column with more distinct categories than
\* fit_max_categories the fitted distribution has the top-k categories, each
\* with its fraction of all reference rows, and an __OTHER__ bucket holding the
\* fraction of the rows outside the top-k; the shares sum to 1.
C15_TopKWithOtherBucket ==
    LET counts == ValueCounts(chunk, "merchant_category", DOMAIN chunk)
        dist == output.merchant_category_dist
        kept == DOMAIN dist \ {"__OTHER__"}
    IN (/\ pc = "fitted"
        /\ cfg.dp_epsilon = "None"
        /\ Cardinality(DOMAIN counts) > cfg.fit_max_categories) =>
           /\ Cardinality(kept) = cfg.fit_max_categories
           /\ \A c \in kept : dist[c].num * Len(chunk) = counts[c] * dist[c].den
           /\ "__OTHER__" \in DOMAIN dist
           /\ dist["__OTHER__"].num * Len(chunk)
                  = (Len(chunk) - SumOver(counts, kept)) * dist["__OTHER__"].den
           /\ SumOver([c \in DOMAIN dist |-> dist[c].num], DOMAIN dist)
                  = dist[CHOOSE c \in DOMAIN dist : TRUE].den

\* C15, the part the code keeps: without noise the distribution has the k most
\* frequent categories and its shares sum to 1.
C15_TopKSharesSumToOne ==
    LET counts == ValueCounts(chunk, "merchant_category", DOMAIN chunk)
        dist == output.merchant_category_dist
    IN (pc = "fitted" /\ cfg.dp_epsilon = "None") =>
           /\ Cardinality(DOMAIN dist)
                  = Min(cfg.fit_max_categories, Cardinality(DOMAIN counts))
           /\ \A c \in DOMAIN dist, o \in DOMAIN counts \ DOMAIN dist :
                 counts[c] >= counts[o]
           /\ \A c \in DOMAIN dist :
                 dist[c] = [num |-> counts[c], den |-> SumOver(counts, DOMAIN dist)]

\* C18: fit on a non-empty reference dataset, with or without dp_epsilon,
\* returns an hour_hist with exactly the 24 entries of the hours 0..23, hours
\* absent from the data at 0, whose values sum to 1.
C18_HourHistIsNormalized ==
    LET hh == output.hour_hist
        present == {chunk[i].hour : i \in DOMAIN chunk}
    IN pc = "fitted" =>
           /\ DOMAIN hh = 0..23
           /\ \A hr \in (0..23) \ present : hh[hr].num = 0
           /\ SumOver([hr \in 0..23 |-> hh[hr].num], 0..23) = hh[0].den

\* C18, the part the code keeps: 24 entries always, absent hours at 0, and a
\* sum of 1 whenever no noise is drawn.
C18_HourHistWithoutNoise ==
    LET hh == output.hour_hist
        present == {chunk[i].hour : i \in DOMAIN chunk}
    IN pc = "fitted" =>
           /\ DOMAIN hh = 0..23
           /\ \A hr \in (0..23) \ present : hh[hr].num = 0
           /\ cfg.dp_epsilon = "None" =>
                 SumOver([hr \in 0..23 |-> hh[hr].num], 0..23) = hh[0].den

\* C14: calibrate changes only fields of the base config that are None: every
\* field the caller set (the five optional ones, and age_dist, fraud_rate,
\* fraud_type_dist) keeps the caller's value, and when no field is None the base
\* config itself is returned.
C14_CalibrateFillsOnlyUnset ==
    pc = "calibrated" =>
        /\ DOMAIN output.config = DOMAIN cfg
        /\ \A f \in OptionalFields : cfg[f].set => output.config[f] = cfg[f]
        /\ \A f \in DOMAIN cfg \ OptionalFields : output.config[f] = cfg[f]
        /\ (\A f \in OptionalFields : cfg[f].set) =>
               (output.is_base /\ output.config = cfg)

\* A calibration of a config with channel_dist given and time_model left None,
\* from a profile whose channel_dist differs from the caller's.
C14_Witness ==
    /\ pc = "calibrated"
    /\ cfg.channel_dist.set
    /\ ~cfg.time_model.set
    /\ hist.channel_dist /= <<>>
    /\ hist.channel_dist /= cfg.channel_dist.value
    /\ output.config.channel_dist = cfg.channel_dist
    /\ output.config.time_model = [set |-> TRUE, value |-> [hour_hist |-> hist.hour_hist]]

\* The weight mappings given in the arguments of GeneratorConfig: the
\* top-level ones that are not None, and a non-empty issue_dist.
GivenMaps(in) ==
    {in.age_dist}
    \cup {in[f].value : f \in {g \in {"channel_dist", "region_dist",
                                      "merchant_category_dist", "fraud_type_dist"} :
                                  in[g].set}}
    \cup (IF in.data_quality.issue_dist /= <<>> THEN {in.data_quality.issue_dist} ELSE {})

\* The weight mappings of a constructed config that sampling reads.
SampledMaps(c) ==
    {c.age_dist, c.fraud_type_dist}
    \cup {c[f].value : f \in {g \in {"channel_dist", "region_dist",
                                     "merchant_category_dist"} : c[g].set}}
    \cup (IF c.data_quality.enabled THEN {c.data_quality.issue_dist} ELSE {})

\* C16: a config given a weight mapping whose weights sum to zero or less is
\* rejected with a ConfigurationError when it is constructed, and every
\* mapping a constructed config hands to sampling has a positive total.
C16_NonPositiveTotalsRejected ==
    pc = "constructed" =>
        /\ (\E m \in GivenMaps(dqin) : DistTotal(m) <= 0) =>
               (~dqout.ok /\ dqout.error \in ConfigurationErrors)
        /\ dqout.ok => \A m \in SampledMaps(dqout.cfg) : DistTotal(m) > 0

\* A rejected data_quality mapping of negative total in an otherwise valid
\* config, the config being disabled.
C16_Witness ==
    /\ pc = "constructed"
    /\ DistTotal(dqin.age_dist) > 0
    /\ \A f \in {"channel_dist", "region_dist", "merchant_category_dist",
                  "fraud_type_dist"} : ~dqin[f].set
    /\ ~dqin.data_quality.enabled
    /\ dqin.data_quality.issue_dist /= <<>>
    /\ DistTotal(dqin.data_quality.issue_dist) < 0
    /\ dqin.causal_fraud_rate = 0
    /\ ~dqout.ok
    /\ dqout.error = "Distribution total must be positive"

\* C17: normalising a weight mapping of positive total keeps exactly its keys
\* and gives each key weight / total, so the values sum to 1; four equal
\* weights become 1/4 each and the weights 2 and 1 become 2/3 and 1/3.
C17_NormalizedSumsToOne ==
    (pc = "normalized" /\ DistTotal(dqin) > 0) =>
        /\ dqout.ok
        /\ DOMAIN dqout.dist = DOMAIN dqin
        /\ \A k \in DOMAIN dqin :
              dqout.dist[k].num * DistTotal(dqin) = dqin[k].num * dqout.dist[k].den
        /\ \A k \in DOMAIN dqin : DistTotal(dqout.dist) = dqout.dist[k].den
        /\ (Cardinality(DOMAIN dqin) = 4 /\ \A k \in DOMAIN dqin : dqin[k] = Raw(1)) =>
               \A k \in DOMAIN dqin : 4 * dqout.dist[k].num = dqout.dist[k].den
        /\ (DOMAIN dqin = {"A18_25", "A26_35"}
                /\ dqin["A18_25"] = Raw(2) /\ dqin["A26_35"] = Raw(1)) =>
               /\ 3 * dqout.dist["A18_25"].num = 2 * dqout.dist["A18_25"].den
               /\ 3 * dqout.dist["A26_35"].num = dqout.dist["A26_35"].den

\* The mapping with the weights 2 and 1, normalised.
C17_Witness ==
    /\ pc = "normalized"
    /\ DOMAIN dqin = {"A18_25", "A26_35"}
    /\ dqin["A18_25"] = Raw(2)
    /\ dqin["A26_35"] = Raw(1)
    /\ dqout.ok
    /\ dqout.dist["A18_25"] = [num |-> 2, den |-> 3]

\* C19: create_synthesizer raises MissingExtraError naming the extra for a
\* backend that is not registered or whose optional package is not installed;
\* a synthesizer it returns is the one of the backend asked for, never the
\* no-op one in its place, and only the backend 'none' has calibrate_columns
\* return its frame unchanged on every call.
C19_NoSilentFallback ==
    LET key == Lower(dqin.backend)
        missing == key \notin FACTORY \/ (key /= "none" /\ key \notin dqin.installed)
    IN pc \in {"raised", "created", "calibrated"} =>
          /\ missing => (dqout.raised /\ dqout.extra = ExtraOf(key))
          /\ ~dqout.raised => (dqout.synthesizer = key /\ dqout.info.backend = key)
          /\ pc = "calibrated" =>
                /\ key = "none" => (~output.raised /\ output.df = chunk)
                /\ (key /= "none" /\ ~output.raised) =>
                       \E df \in InjectorFrames :
                          SynthCalibrate(key, df, <<"device_id">>).df /= df

\* The sdv backend asked for without its package.
C19_Witness ==
    /\ pc = "raised"
    /\ dqin.backend = "sdv"
    /\ "sdv" \notin dqin.installed
    /\ "faker" \in dqin.installed
    /\ dqout.raised
    /\ dqout.extra = "sdv"

\* The order of the steps of run: each pair is a step and the step after it.
StepOrder ==
    {<<"start", "loop">>, <<"loop", "calibrate">>, <<"calibrate", "inject">>,
     <<"inject", "apply">>, <<"inject", "applied">>, <<"apply", "applied">>,
     <<"apply", "raised">>, <<"applied", "write">>, <<"write", "loop">>,
     <<"loop", "finalize">>, <<"finalize", "done">>}

\* C20: within a run the steps of a chunk happen in the order generation,
\* calibration (if configured), injection (if enabled), metadata.update,
\* writer.write, and all are complete for a chunk before generation for the
\* next one; metadata.finalize and writer.finalize happen once each, after the
\* last write, and no update or write follows them.
C20_ChunkStepsInOrder ==
    [][/\ pc' /= pc => <<pc, pc'>> \in StepOrder
       /\ (pc = "inject" /\ pc' = "apply") <=> (pc = "inject" /\ cfg.data_quality.enabled)
       /\ (pc = "calibrate" /\ chunk' /= chunk) => cfg.synth.calibrate_cols /= <<>>
       /\ entries' /= entries => pc \in {"start", "loop"}
       /\ meta'.total_records /= meta.total_records =>
              (pc = "applied" /\ pc' = "write" /\ written.finalized = 0
                  /\ meta'.total_records = meta.total_records + Len(chunk))
       /\ written'.chunks /= written.chunks =>
              (pc = "write" /\ written.finalized = 0
                  /\ written'.chunks = written.chunks + 1
                  /\ meta.total_records = written'.rows)
       /\ pc = "loop" => (meta.total_records = written.rows /\ generated = written.rows)
       /\ output' /= output => (pc = "finalize" /\ output = [none |-> TRUE])
       /\ written'.finalized /= written.finalized =>
              (pc = "finalize" /\ written.finalized = 0 /\ written'.finalized = 1
                  /\ output' /= [none |-> TRUE] /\ written'.rows = meta.total_records)
       /\ pc = "done" => written.finalized = 1]_vars

\* A completed run of two chunks with calibration configured and injection
\* enabled.
C20_Witness ==
    /\ pc = "done"
    /\ written.chunks >= 2
    /\ written.finalized = 1
    /\ cfg.data_quality.enabled
    /\ cfg.synth.calibrate_cols /= <<>>
    /\ output.counts.total_records = written.rows

\* The place of a scenario in the fixed order baseline, causal_simpson,
\* causal_collider.
Place(name) == CHOOSE i \in DOMAIN ScenarioNames : ScenarioNames[i] = name

\* The entry of scenario_entries that holds the scenario `name`.
EntryOf(ents, name) == CHOOSE e \in DOMAIN ents : ents[e].name = name

\* C21: in every chunk iteration the scenarios are visited in the order
\* baseline, causal_simpson, causal_collider; each visited one is asked for
\* min(its remaining rows, chunk_size - rows already produced in the chunk), so
\* a later scenario gets rows only when every earlier one has none remaining;
\* over the whole run each scenario produces exactly its total_rows.
C21_QuotaSplitInFixedOrder ==
    [][/\ (pc = "loop" /\ pc' = "calibrate") =>
            LET cs == Min(cfg.chunk_size, cfg.records - generated)
                calls == takes'
                before(j) == SumSeq([i \in 1..(j - 1) |-> calls[i].n])
            IN /\ \A e \in DOMAIN entries : Place(entries[e].name) = e
               /\ \A i, j \in DOMAIN calls :
                     i < j => Place(calls[i].name) < Place(calls[j].name)
               /\ \A j \in DOMAIN calls :
                     LET e == EntryOf(entries, calls[j].name)
                     IN /\ calls[j].n = Min(entries[e].remaining, cs - before(j))
                        /\ entries'[e].remaining = entries[e].remaining - calls[j].n
                        /\ \A d \in 1..(e - 1) : entries'[d].remaining = 0
               /\ Len(chunk') = SumSeq([i \in DOMAIN calls |-> calls[i].n])
               /\ \A e \in DOMAIN entries :
                     (\A j \in DOMAIN calls : calls[j].name /= entries[e].name) =>
                        (entries[e].remaining <= 0
                           \/ SumSeq([i \in DOMAIN calls |-> calls[i].n]) >= cs)
       /\ pc = "done" => \A e \in DOMAIN entries : entries[e].remaining = 0]_vars

\* A chunk iteration in which the baseline gives its last row and
\* causal_simpson fills the rest of the chunk.
C21_Witness ==
    /\ pc = "calibrate"
    /\ Len(takes) = 2
    /\ takes[1].name = "baseline"
    /\ takes[2].name \in {"causal_simpson", "causal_collider"}
    /\ entries[1].remaining = 0
    /\ Len(chunk) = cfg.chunk_size

\* C22: after apply returns, every issue applied to a dirtied row is named in
\* that row's dirty_issues, and the counter entry of every issue equals the
\* number of returned rows whose dirty_issues names it.
C22_NoIssueNameLost ==
    pc = "applied" =>
        /\ \A k \in DOMAIN hist.log :
              hist.log[k].issue \in Range(chunk[hist.log[k].idx].dirty_issues)
        /\ \A t \in Range(IssueTypes) :
              Get(issues, t) =
                 Cardinality({i \in DOMAIN chunk : t \in Range(chunk[i].dirty_issues)})

\* The positions of run at which the frame of the iteration exists: after
\* pd.concat and up to writer.write.
ChunkInHand == {"calibrate", "inject", "apply", "applied", "write"}

\* C23: every generate call of an iteration is asked for between 1 and
\* output.chunk_size rows, and the frame handed to the injector, to
\* metadata.update and to writer.write has between 1 and output.chunk_size rows.
C23_ChunkWithinBounds ==
    pc \in ChunkInHand =>
        /\ takes /= <<>>
        /\ \A j \in DOMAIN takes : 1 <= takes[j].n /\ takes[j].n <= cfg.chunk_size
        /\ 1 <= Len(chunk) /\ Len(chunk) <= cfg.chunk_size

C23_Witness ==
    /\ pc = "write"
    /\ cfg.chunk_size = MaxChunk
    /\ cfg.records = MaxRecords
    /\ generated = MaxChunk
    /\ Len(chunk) = MaxRecords - MaxChunk

\* C24: _select_low_amount_indices returns exactly `count` pairwise distinct
\* row indices, and within every region the selected rows are that region's
\* lowest-amount rows: no unselected row of a region has a smaller amount than
\* a selected row of the same region.
C24_SelectsRegionLowest ==
    pc = "selected" =>
        LET df == hist.df
            ix == hist.indices
        IN /\ Len(ix) = hist.count
           /\ \A a, b \in DOMAIN ix : a /= b => ix[a] /= ix[b]
           /\ Range(ix) \subseteq DOMAIN df
           /\ \A s \in Range(ix) : \A u \in DOMAIN df \ Range(ix) :
                 df[s].region = df[u].region => df[s].amount <= df[u].amount

\* Three rows in two regions with count 3: one row per region, then the remainder.
C24_Witness ==
    /\ pc = "selected"
    /\ Len(hist.df) = 3
    /\ hist.count = 3
    /\ Cardinality({hist.df[i].region : i \in DOMAIN hist.df}) = 2

\* count smaller than the number of regions.
C24_WitnessFewerThanRegions ==
    /\ pc = "selected"
    /\ hist.count = 1
    /\ Cardinality({hist.df[i].region : i \in DOMAIN hist.df}) = 3

\* C25: a call generate(n) of the collider scenario with k = min(remaining
\* fraud quota, n) labels exactly k rows fraudulent, the k rows of highest
\* latent risk (no unlabelled row has a higher score than a labelled one), and
\* is_causal_fraud equals is_fraud on every row.
C25_ColliderLabelsTopRisk ==
    (pc = "scenario" /\ scn.name = "causal_collider" /\ hist.calls > 0) =>
        LET k == Min(hist.before, hist.last_n)
            F == {i \in DOMAIN chunk : chunk[i].is_fraud}
        IN /\ Len(chunk) = hist.last_n
           /\ Cardinality(F) = k
           /\ \A i \in F : \A u \in DOMAIN chunk \ F : hist.risk[i] >= hist.risk[u]
           /\ \A i \in DOMAIN chunk : chunk[i].is_causal_fraud = chunk[i].is_fraud

\* A call that labels some but not all rows, with differing scores.
C25_Witness ==
    /\ pc = "scenario"
    /\ scn.name = "causal_collider"
    /\ hist.calls > 0
    /\ hist.last_fraud > 0
    /\ hist.last_fraud < hist.last_n
    /\ \E i, u \in DOMAIN chunk :
          chunk[i].is_fraud /\ ~chunk[u].is_fraud /\ hist.risk[i] > hist.risk[u]

\* C26: a DUPLICATE_ROWS issue applied to row idx of a batch of at least two
\* rows copies from a row other than idx; in a batch of one row the source is
\* the row itself.
C26_DuplicateSourceIsAnotherRow ==
    pc = "applied" =>
        \A k \in DOMAIN hist.log :
            hist.log[k].issue = "DUPLICATE_ROWS" =>
                /\ hist.log[k].source \in DOMAIN hist.input
                /\ IF Len(hist.input) >= 2
                   THEN hist.log[k].source /= hist.log[k].idx
                   ELSE hist.log[k].source = hist.log[k].idx

C26_Witness ==
    /\ pc = "applied"
    /\ Len(hist.input) >= 2
    /\ \E k \in DOMAIN hist.log :
          /\ hist.log[k].issue = "DUPLICATE_ROWS"
          /\ hist.log[k].source = (hist.log[k].idx % Len(hist.input)) + 1

\* The batch of one row: the row is copied onto itself.
C26_WitnessSingleRow ==
    /\ pc = "applied"
    /\ Len(hist.input) = 1
    /\ \E k \in DOMAIN hist.log : hist.log[k].issue = "DUPLICATE_ROWS"

\* C28: apply leaves the fraud labelling of the batch as it was: the number of
\* rows with is_fraud, and the number with is_causal_fraud, is the same in the
\* returned frame as in the frame passed in.
C28_FraudLabelsPreserved ==
    pc = "applied" =>
        /\ Count(chunk, "is_fraud") = Count(hist.input, "is_fraud")
        /\ Count(chunk, "is_causal_fraud") = Count(hist.input, "is_causal_fraud")

\* C29: apply changes nothing in the rows that were not selected as dirty:
\* every column of such a row in the returned frame equals the input row, its
\* is_dirty is false and its dirty_issues is empty, whatever was applied to the
\* other rows.
C29_CleanRowsUntouched ==
    pc = "applied" =>
        /\ Len(chunk) = Len(hist.input)
        /\ \A i \in DOMAIN chunk \ Range(hist.indices) :
              /\ chunk[i] = hist.input[i]
              /\ chunk[i].is_dirty = FALSE
              /\ chunk[i].dirty_issues = <<>>

CausalScenarioNames == {"causal_simpson", "causal_collider"}

\* C27: in a run with causal fraud enabled and dirty injection disabled every
\* row of a causal scenario has is_fraud and is_causal_fraud true and every
\* baseline row has is_causal_fraud false; the finished run reports
\* causal_fraud_count = round(records * causal_fraud_rate), and 0 when causal
\* fraud is disabled.
C27_CausalRowsAreTheCausalFrauds ==
    ~cfg.data_quality.enabled =>
        /\ (cfg.causal_fraud /\ pc \in ChunkInHand) =>
              \A i \in DOMAIN chunk :
                  IF chunk[i].scenario \in CausalScenarioNames
                  THEN chunk[i].is_fraud /\ chunk[i].is_causal_fraud
                  ELSE chunk[i].scenario = "baseline" /\ ~chunk[i].is_causal_fraud
        /\ pc = "done" =>
              output.causal.causal_fraud_count =
                 IF cfg.causal_fraud
                 THEN RoundHalfEven(cfg.records * cfg.causal_fraud_rate, RateDen)
                 ELSE 0

\* A finished run that mixed baseline rows with rows of both causal scenarios.
C27_Witness ==
    /\ pc = "done"
    /\ cfg.causal_fraud
    /\ ~cfg.data_quality.enabled
    /\ output.causal.causal_fraud_count >= 2
    /\ output.causal.causal_fraud_count < written.rows

\* C30: whenever the while loop of run is at its head, generated plus the sum
\* of the scenarios' remaining rows equals records, every remaining is at
\* least 0 and generated lies between 0 and records; and no step of the run
\* ever increases a scenario's remaining.
C30_RowsAreConserved ==
    [][/\ pc' = "loop" =>
            /\ generated' + SumSeq([e \in DOMAIN entries' |-> entries'[e].remaining])
                  = cfg'.records
            /\ \A e \in DOMAIN entries' : entries'[e].remaining >= 0
            /\ 0 <= generated' /\ generated' <= cfg'.records
       /\ \A e \in DOMAIN entries :
            /\ e \in DOMAIN entries'
            /\ entries'[e].name = entries[e].name
            /\ entries'[e].remaining <= entries[e].remaining]_vars

\* The loop head between two chunks, with rows written and rows of two
\* scenarios still to come.
C30_Witness ==
    /\ pc = "loop"
    /\ generated > 0
    /\ generated < cfg.records
    /\ Len(entries) = 3
    /\ entries[1].remaining = 0
    /\ entries[3].remaining > 0

============================================================================
